---- MODULE Spec2Model ----
(***************************************************************************)
(* Model of the play-region mouse-gesture state machine of                 *)
(* AdornedRulerPanel (src/src/AdornedRulerPanel.cpp): the quick-play       *)
(* handle (Click / Drag / Release / Cancel), HandleQPClick, HandleQPDrag,   *)
(* HandleQPRelease, StartQPPlay, SetPlayRegion, ClearPlayRegion and the     *)
(* event handlers that reach them.                                         *)
(*                                                                         *)
(* Times are integers on a grid of 0.001 s (one tick); -1 is the "unset"   *)
(* sentinel.  Pixels are integers.                                         *)
(***************************************************************************)
EXTENDS Integers, Sequences, FiniteSets, TLC

\* ---------------------------------------------------------------- bounds
\* usable track width in pixels of a laid-out view
Width == 16
\* number of mouse gestures started in one behaviour
MaxGestures == 1
\* number of mouse-move events within one gesture
MaxMoves == 2
\* number of external events (selection changes, transport events, ...)
MaxExternal == 1

\* ------------------------------------------------------- program constants
SELECT_TOLERANCE_PIXEL == 4
\* "unset" time of a cleared play region / absent anchor
Unset == -1
\* the loop threshold 0.001 of StartQPPlay, in ticks
LoopMinSpan == 1
\* the margins and heights of the ruler's rectangles
TopMargin == 1
BottomMargin == 2
LeftMargin == 1
RightMargin == 1
ScrubHeight == 14
ProperRulerHeight == 29

\* ----------------------------------------------- input sets of the model
\* pixels at which mouse events arrive (the first lies left of the usable area)
\* with the left offset 1 of Init
MouseXs == {0, 4, 6, 10, 14, 15}
\* zooms of the view, as ticks per pixel
Zooms == {1}
\* track spans [t0, t1]
TrackSpans == { [t0 |-> 5, t1 |-> 13] }
\* selections the user may have or make
Selections == { [t0 |-> 2, t1 |-> 4], [t0 |-> 2, t1 |-> 12] }
\* regions that a caller outside the panel sets
ExternalRegions == { [t0 |-> 6, t1 |-> 10] }
\* width of the panel's client rectangle
PanelWidth == 20

VARIABLES
  playRegion,               \* viewInfo.playRegion
  selectedRegion,           \* viewInfo.selectedRegion
  mOldPlayRegion,
  mOldSelection,            \* QPHandle::mOldSelection
  mMouseEventState,
  mIsDragging,
  mLeftDownClick,
  mLeftDownClickUnsnapped,
  mQuickPlayPos,
  mQuickPlayPosUnsnapped,
  mIsSnapped,
  mIsRecording,
  mPlayRegionDragsSelection,
  mClicked,                 \* CommonRulerHandle::mClicked of the live handle
  mX,                       \* CommonRulerHandle::mX
  tracks,                   \* mTracks->GetStartTime(), GetEndTime()
  zoom,                     \* view zoom, in ticks per pixel
  hpos,                     \* viewInfo.h, time at the left edge
  mLeftOffset,
  usableWidth,              \* viewInfo.GetTracksUsableWidth()
  audioActive,              \* transport is playing
  hasMark,                  \* Scrubber::HasMark()
  scrubTarget,              \* the live handle is a ScrubbingHandle
  rulerOverlay,             \* ScrubbingRulerOverlay: mNew... and mOld... fields
  guideline,                \* TrackPanelGuidelineOverlay: mNew... and mOld...
  clientRect,               \* GetClientRect() / GetSize() of the panel
  showsBar,                 \* scrubber.ShowsBar()
  mOuter, mInner, mScrubZone,
  mLastDrawnH, mLastDrawnZoom, mLastDrawnPlayRegion,
  mDirtyPlayRegion, mLastPlayRegionActive,
  needsPaint,               \* Refresh() was called and no paint has run since
  requests,                 \* transport requests issued by the last handler
  ev,                       \* history: the last event and what it observed
  pre,                      \* history: region and selection before mouse-down
  nGestures, nMoves, nExternal

vars == << playRegion, selectedRegion, mOldPlayRegion, mOldSelection,
           mMouseEventState, mIsDragging, mLeftDownClick,
           mLeftDownClickUnsnapped, mQuickPlayPos, mQuickPlayPosUnsnapped,
           mIsSnapped, mIsRecording, mPlayRegionDragsSelection, mClicked, mX,
           tracks, zoom, hpos, mLeftOffset, usableWidth, audioActive,
           hasMark, scrubTarget, rulerOverlay, guideline,
           clientRect, showsBar, mOuter, mInner, mScrubZone,
           mLastDrawnH, mLastDrawnZoom, mLastDrawnPlayRegion,
           mDirtyPlayRegion, mLastPlayRegionActive, needsPaint,
           requests, ev, pre, nGestures, nMoves, nExternal >>

\* the geometry of the panel and what the last paint has drawn; the gesture
\* handlers leave them alone but for the Refresh() they end with, which the
\* idle specification follows
PaintVars == << clientRect, showsBar, mOuter, mInner, mScrubZone,
                mLastDrawnH, mLastDrawnZoom, mLastDrawnPlayRegion,
                mDirtyPlayRegion, mLastPlayRegionActive, needsPaint >>

\* --------------------------------------------------------------- helpers
Min(a, b) == IF a < b THEN a ELSE b
Max(a, b) == IF a > b THEN a ELSE b
Abs(a) == IF a < 0 THEN 0 - a ELSE a

\* mouse event states (enum MouseEventState)
mesNone == "mesNone"
mesDraggingPlayRegionStart == "mesDraggingPlayRegionStart"
mesDraggingPlayRegionEnd == "mesDraggingPlayRegionEnd"
mesSelectingPlayRegionClick == "mesSelectingPlayRegionClick"
mesSelectingPlayRegionRange == "mesSelectingPlayRegionRange"

\* ------------------------------------------------------------ PlayRegion
\* The PlayRegion class is declared outside this file.
MkRegion(s, e, a, ls, le) ==
  [start |-> s, end |-> e, active |-> a, lastStart |-> ls, lastEnd |-> le]

PR_Empty(pr) == pr.end - pr.start <= 0

PR_SetTimes(pr, s, e) ==
  IF pr.active
    THEN [pr EXCEPT !.start = s, !.end = e, !.lastStart = s, !.lastEnd = e]
    ELSE [pr EXCEPT !.start = s, !.end = e]

PR_SetStart(pr, s) == PR_SetTimes(pr, s, pr.end)

PR_SetEnd(pr, e) == PR_SetTimes(pr, pr.start, e)

PR_Order(pr) ==
  IF pr.start > pr.end THEN PR_SetTimes(pr, pr.end, pr.start) ELSE pr

PR_SetActive(pr, a) ==
  IF a /\ ~pr.active
    THEN [pr EXCEPT !.active = TRUE, !.start = pr.lastStart, !.end = pr.lastEnd]
    ELSE [pr EXCEPT !.active = a]

\* ------------------------------------------------------------- TimeAxis
\* ZoomInfo::PositionToTime / TimeToPosition, outside this file.
PositionToTime(p, origin) == hpos + (p - origin) * zoom

TimeToPosition(t, origin) ==
  ((2 * (t - hpos) + zoom) \div (2 * zoom)) + origin

\* Pos2Time with the origin of the panel, not of the ruler
Pos2Time_ZeroOrigin(p) == PositionToTime(p, 0)

Pos2Time(p) == PositionToTime(p, mLeftOffset)

Time2Pos(t) == TimeToPosition(t, mLeftOffset)

IsWithinMarker(mousePosX, markerTime) ==
  IF markerTime < 0
    THEN FALSE
    ELSE LET pixelPos == Time2Pos(markerTime)
             boundLeft == pixelPos - SELECT_TOLERANCE_PIXEL
             boundRight == pixelPos + SELECT_TOLERANCE_PIXEL
         IN mousePosX >= boundLeft /\ mousePosX < boundRight

\* ----------------------------------------------------------- SnapEngine
\* SnapManager::Snap, outside this file: the nearest reference point within
\* the pixel tolerance converted to a time tolerance, first in list on ties.
SnapResult(t, refs) ==
  LET tol == SELECT_TOLERANCE_PIXEL * zoom
      near == { i \in 1..Len(refs) : Abs(t - refs[i]) <= tol }
  IN IF near = {}
       THEN [outTime |-> t, snapped |-> FALSE]
       ELSE LET best == CHOOSE i \in near :
                          \A j \in near :
                             \/ Abs(t - refs[i]) < Abs(t - refs[j])
                             \/ (Abs(t - refs[i]) = Abs(t - refs[j]) /\ i <= j)
            IN [outTime |-> refs[best], snapped |-> TRUE]

\* ------------------------------------------------- the panel as a record
\* Handlers are operators from the panel's state to its next state.
St ==
  [ playRegion |-> playRegion, selectedRegion |-> selectedRegion,
    mOldPlayRegion |-> mOldPlayRegion, mOldSelection |-> mOldSelection,
    mMouseEventState |-> mMouseEventState, mIsDragging |-> mIsDragging,
    mLeftDownClick |-> mLeftDownClick,
    mLeftDownClickUnsnapped |-> mLeftDownClickUnsnapped,
    mQuickPlayPos |-> mQuickPlayPos,
    mQuickPlayPosUnsnapped |-> mQuickPlayPosUnsnapped,
    mIsSnapped |-> mIsSnapped, mIsRecording |-> mIsRecording,
    mPlayRegionDragsSelection |-> mPlayRegionDragsSelection,
    mClicked |-> mClicked, mX |-> mX,
    audioActive |-> audioActive,
    hasMark |-> hasMark, scrubTarget |-> scrubTarget,
    requests |-> << >> ]

ApplyState(s) ==
  /\ playRegion' = s.playRegion
  /\ selectedRegion' = s.selectedRegion
  /\ mOldPlayRegion' = s.mOldPlayRegion
  /\ mOldSelection' = s.mOldSelection
  /\ mMouseEventState' = s.mMouseEventState
  /\ mIsDragging' = s.mIsDragging
  /\ mLeftDownClick' = s.mLeftDownClick
  /\ mLeftDownClickUnsnapped' = s.mLeftDownClickUnsnapped
  /\ mQuickPlayPos' = s.mQuickPlayPos
  /\ mQuickPlayPosUnsnapped' = s.mQuickPlayPosUnsnapped
  /\ mIsSnapped' = s.mIsSnapped
  /\ mIsRecording' = s.mIsRecording
  /\ mPlayRegionDragsSelection' = s.mPlayRegionDragsSelection
  /\ mClicked' = s.mClicked
  /\ mX' = s.mX
  /\ audioActive' = s.audioActive
  /\ hasMark' = s.hasMark
  /\ scrubTarget' = s.scrubTarget
  /\ requests' = s.requests
  /\ UNCHANGED << tracks, mLeftOffset, usableWidth, rulerOverlay, guideline >>

Apply(s) ==
  /\ ApplyState(s)
  /\ UNCHANGED << zoom, hpos, PaintVars >>

\* --------------------------------------------- region and selection sync
SetPlayRegion_Unguarded(s, playRegionStart, playRegionEnd) ==
  [s EXCEPT !.playRegion = PR_SetTimes(@, playRegionStart, playRegionEnd)]

SetPlayRegion(s, playRegionStart, playRegionEnd) ==
  IF s.mMouseEventState # mesNone
    THEN s
    ELSE [s EXCEPT !.playRegion = PR_SetTimes(@, playRegionStart, playRegionEnd)]

DoSelectionChange_ActiveOnly(s) ==
  IF s.playRegion.active
    THEN SetPlayRegion(s, s.selectedRegion.t0, s.selectedRegion.t1)
    ELSE s

DoSelectionChange(s) ==
  IF ~s.playRegion.active
    THEN SetPlayRegion(s, s.selectedRegion.t0, s.selectedRegion.t1)
    ELSE s

\* OnSelectionChange: the handler bound to EVT_SELECTED_REGION_CHANGE
OnSelectionChange(s) == DoSelectionChange(s)

\* SelectUtilities::InactivatePlayRegion / ActivatePlayRegion, outside this
\* file: the inactive region follows the selection, the re-activated region
\* gets its remembered bounds back.
InactivatePlayRegion(s) ==
  [s EXCEPT !.playRegion =
     PR_SetTimes(PR_SetActive(@, FALSE), s.selectedRegion.t0, s.selectedRegion.t1)]

ActivatePlayRegion(s) ==
  [s EXCEPT !.playRegion = PR_SetActive(@, TRUE)]

\* ------------------------------------------------- the scrubbing handle
StopRequest == [req |-> "stop", start |-> Unset, end |-> Unset, mode |-> "none"]

\* the call of ProjectAudioManager::Stop as the transport sees it
RequestStop(s) == [s EXCEPT !.requests = Append(@, StopRequest)]

\* Scrubber::MarkScrubStart, outside this file: the scrubber is called with
\* the pixel and has a mark from then on.
MarkScrubStart(s, xx) ==
  [s EXCEPT !.requests = Append(@, [req |-> "markScrubStart", start |-> xx,
                                     end |-> Unset, mode |-> "none"]),
            !.hasMark = TRUE]

\* Scrubber::Cancel, outside this file: the mark is dropped.
Scrubber_Cancel(s) ==
  [s EXCEPT !.requests = Append(@, [req |-> "scrubCancel", start |-> Unset,
                                     end |-> Unset, mode |-> "none"]),
            !.hasMark = FALSE]

\* Scrubbing ends inside the scrubber, without a call from the panel.
Scrubber_Ended(s) == [s EXCEPT !.hasMark = FALSE]

\* CellularPanel::HandleClick, outside this file: a handle whose Click
\* returns Cancelled is dropped and receives no further event.
DropHandle(s) == [s EXCEPT !.mClicked = "None", !.scrubTarget = FALSE]

\* "only if scrubbing is allowed now"
CanScrub_Always(canScrub, showing) == TRUE

CanScrub(canScrub, showing) == canScrub /\ showing

\* ScrubbingHandle::Click at the event's pixel m_x.  A click that returns
\* Cancelled starts no drag: the panel drops the handle.
ScrubbingHandle_Click_MarksFirst(s, m_x, leftIsDown, canScrub, showing) ==
  LET s1 == [s EXCEPT !.mClicked = IF leftIsDown THEN "Left" ELSE "Right",
                      !.scrubTarget = TRUE]
  IN IF s1.mClicked = "Left"
       THEN LET s2 == IF ~s1.hasMark THEN MarkScrubStart(s1, m_x) ELSE s1
            IN IF ~CanScrub(canScrub, showing) THEN DropHandle(s2) ELSE s2
       ELSE s1

ScrubbingHandle_Click(s, m_x, leftIsDown, canScrub, showing) ==
  LET s1 == [s EXCEPT !.mClicked = IF leftIsDown THEN "Left" ELSE "Right",
                      !.scrubTarget = TRUE]
  IN IF s1.mClicked = "Left"
       THEN IF ~CanScrub(canScrub, showing)
              THEN DropHandle(s1)
              ELSE IF ~s1.hasMark
                     THEN MarkScrubStart(s1, m_x)
                     ELSE s1
       ELSE s1

\* "Nothing needed here.  The scrubber works by polling mouse state after
\*  the start has been marked."
ScrubbingHandle_Drag(s) == s

\* "Nothing needed here either."  The handle is dropped.
ScrubbingHandle_Release(s) ==
  [s EXCEPT !.mClicked = "None", !.scrubTarget = FALSE]

\* ScrubbingHandle::Cancel.  The audio-stop event of the Stop request
\* arrives when the transport has stopped.
ScrubbingHandle_Cancel_StopFirst(s) ==
  IF s.mClicked = "Left"
    THEN Scrubber_Cancel(RequestStop(s))
    ELSE s

ScrubbingHandle_Cancel(s) ==
  IF s.mClicked = "Left"
    THEN RequestStop(Scrubber_Cancel(s))
    ELSE s

\* --------------------------------------------------------------- cancel
QPHandle_Cancel_ModeKept(s) ==
  IF s.mClicked = "Left"
    THEN LET s1 == OnSelectionChange([s EXCEPT !.selectedRegion = s.mOldSelection])
             s3 == SetPlayRegion(s1, s1.mOldPlayRegion.start, s1.mOldPlayRegion.end)
             s4 == [s3 EXCEPT !.mMouseEventState = mesNone]
         IN IF s4.mOldPlayRegion.active
              THEN [ActivatePlayRegion(s4) EXCEPT
                      !.mOldPlayRegion = PR_SetActive(@, FALSE)]
              ELSE s4
    ELSE s

QPHandle_Cancel(s) ==
  IF s.mClicked = "Left"
    THEN LET s1 == OnSelectionChange([s EXCEPT !.selectedRegion = s.mOldSelection])
             s2 == [s1 EXCEPT !.mMouseEventState = mesNone]
             s3 == SetPlayRegion(s2, s2.mOldPlayRegion.start, s2.mOldPlayRegion.end)
         IN IF s3.mOldPlayRegion.active
              THEN [ActivatePlayRegion(s3) EXCEPT
                      !.mOldPlayRegion = PR_SetActive(@, FALSE)]
              ELSE s3
    ELSE s

\* CellularPanel::CancelDragging + ClearTargets: the live handle, if any, is
\* cancelled and dropped.
CancelDragging(s) ==
  IF s.mClicked # "None"
    THEN IF s.scrubTarget
           THEN [ScrubbingHandle_Cancel(s) EXCEPT !.mClicked = "None",
                                                  !.scrubTarget = FALSE]
           ELSE [QPHandle_Cancel(s) EXCEPT !.mClicked = "None"]
    ELSE s

\* ---------------------------------------------------- transport events
OnAudioStartStop(s, isCapture, int) ==
  LET s1 == IF isCapture
              THEN IF int # 0
                     THEN CancelDragging([s EXCEPT !.mIsRecording = TRUE])
                     ELSE [s EXCEPT !.mIsRecording = FALSE]
              ELSE s
  IN IF int = 0 THEN DoSelectionChange(s1) ELSE s1

\* ProjectAudioManager::Stop, outside this file: a request to the transport.
\* When the transport is playing, its audio-stop event is delivered during
\* the call (cb), or later, when the transport has stopped (PlaybackStops).
Stop(s, cb) ==
  LET s1 == RequestStop(s)
  IN IF s1.audioActive /\ cb
       THEN OnAudioStartStop([s1 EXCEPT !.audioActive = FALSE], FALSE, 0)
       ELSE s1

PlayPlayRegion(s, start, end, mode) ==
  [s EXCEPT !.requests =
              Append(@, [req |-> "play", start |-> start, end |-> end, mode |-> mode]),
            !.audioActive = TRUE]

ClearPlayRegion(s, cb) ==
  [Stop(s, cb) EXCEPT !.playRegion = PR_SetTimes(@, Unset, Unset)]

\* ---------------------------------------------------------- StartQPPlay
\* "we are in a selection": the point lies strictly inside the selection
InsideSelection_Closed(pr, sel0, sel1) == (pr.start >= sel0) /\ (pr.start <= sel1)

InsideSelection(pr, sel0, sel1) == (pr.start > sel0) /\ (pr.start < sel1)

\* The effective span [start, end] that StartQPPlay plays.
EffectiveSpan_PointLoops(s, looped) ==
  LET pr == s.playRegion
      sel0 == s.selectedRegion.t0
      sel1 == s.selectedRegion.t1
  IN IF PR_Empty(pr)
       THEN IF InsideSelection(pr, sel0, sel1)
              THEN [start |-> sel0, end |-> sel1]
              ELSE [start |-> tracks.t0, end |-> tracks.t1]
       ELSE [start |-> pr.start, end |-> pr.end]

EffectiveSpan(s, looped) ==
  LET pr == s.playRegion
      sel0 == s.selectedRegion.t0
      sel1 == s.selectedRegion.t1
  IN IF PR_Empty(pr) /\ looped
       THEN IF InsideSelection(pr, sel0, sel1)
              THEN [start |-> sel0, end |-> sel1]
              ELSE [start |-> tracks.t0, end |-> tracks.t1]
       ELSE [start |-> pr.start, end |-> pr.end]

\* "bool looped = (loopEnabled && looped);" declares a local that hides the
\* parameter and reads itself before it has a value: when loopEnabled holds
\* the result is whatever the build leaves there (uninit).
LoopedLocal_NoThreshold(loopEnabled, looped, uninit) == uninit

LoopedLocal(loopEnabled, looped, uninit) == loopEnabled /\ uninit

PlayModeOf_IgnoresCutPreview(cutPreview, looped) ==
  IF looped THEN "loopedPlay" ELSE "normalPlay"

PlayModeOf(cutPreview, looped) ==
  IF cutPreview THEN "cutPreviewPlay"
  ELSE IF looped THEN "loopedPlay"
  ELSE "normalPlay"

\* "Start / Restart playback on left click."
StartPlaying_Always(s) == TRUE

StartPlaying(s) == s.playRegion.start >= 0

\* StartQPPlay that stops first and reads the region afterwards
StartQPPlay_SpanAfterStop(s, looped, cutPreview, cb, uninit) ==
  IF ~StartPlaying(s)
    THEN s
    ELSE LET s1 == Stop(s, cb)
             span == EffectiveSpan(s1, looped)
             loopEnabled == (span.end - span.start) > LoopMinSpan
             looped2 == LoopedLocal(loopEnabled, looped, uninit)
             cutPreview2 == IF looped2 THEN FALSE ELSE cutPreview
             mode == PlayModeOf(cutPreview2, looped2)
             s2 == [s1 EXCEPT !.playRegion = PR_SetTimes(@, span.start, span.end)]
         IN PlayPlayRegion(s2, span.start, span.end, mode)

StartQPPlay_NoStop(s, looped, cutPreview, cb, uninit) ==
  IF ~StartPlaying(s)
    THEN s
    ELSE LET span == EffectiveSpan(s, looped)
             loopEnabled == (span.end - span.start) > LoopMinSpan
             looped2 == LoopedLocal(loopEnabled, looped, uninit)
             cutPreview2 == IF looped2 THEN FALSE ELSE cutPreview
             mode == PlayModeOf(cutPreview2, looped2)
             s2 == [s EXCEPT !.playRegion = PR_SetTimes(@, span.start, span.end)]
         IN PlayPlayRegion(s2, span.start, span.end, mode)

StartQPPlay(s, looped, cutPreview, cb, uninit) ==
  LET startPlaying == StartPlaying(s)
  IN IF ~startPlaying
       THEN s
       ELSE LET span == EffectiveSpan(s, looped)
                loopEnabled == (span.end - span.start) > LoopMinSpan
                looped2 == LoopedLocal(loopEnabled, looped, uninit)
                cutPreview2 == IF looped2 THEN FALSE ELSE cutPreview
                mode == PlayModeOf(cutPreview2, looped2)
                s1 == Stop(s, cb)
                s2 == [s1 EXCEPT !.playRegion = PR_SetTimes(@, span.start, span.end)]
            IN PlayPlayRegion(s2, span.start, span.end, mode)

\* ---------------------------------------------------- quick-play position
\* viewInfo.GetLeftOffset(): the ruler is laid out with the view's offset.
GetLeftOffset == mLeftOffset

ClampX(mousePosX) ==
  Min(Max(mousePosX, GetLeftOffset), GetLeftOffset + usableWidth - 1)

\* HandleSnapping that reports a snap only when the time moved
HandleSnapping_MovedOnly(s) ==
  LET results == SnapResult(s.mQuickPlayPos,
                            << s.selectedRegion.t0, s.selectedRegion.t1 >>)
  IN [s EXCEPT !.mQuickPlayPos = results.outTime,
               !.mIsSnapped = results.snapped /\ results.outTime # s.mQuickPlayPos]

HandleSnapping(s) ==
  LET results == SnapResult(s.mQuickPlayPos,
                            << s.selectedRegion.t0, s.selectedRegion.t1 >>)
  IN [s EXCEPT !.mQuickPlayPos = results.outTime, !.mIsSnapped = results.snapped]

\* inQPCell: LastCell() == mQPCell || mQPCell->Clicked()
UpdateQuickPlayPos(s, mousePosX, shiftDown, inQPCell) ==
  LET t == Pos2Time(ClampX(mousePosX))
      s1 == HandleSnapping([s EXCEPT !.mQuickPlayPosUnsnapped = t, !.mQuickPlayPos = t])
  IN IF inQPCell /\ ~shiftDown
       THEN [s1 EXCEPT !.mQuickPlayPos = Min(tracks.t1, @)]
       ELSE s1

\* SelectedRegion::setT0 / setT1, outside this file; each change of the
\* selection is notified to OnSelectionChange.
DragSelection(s) ==
  LET s1 == OnSelectionChange([s EXCEPT !.selectedRegion.t0 = s.playRegion.start])
  IN OnSelectionChange([s1 EXCEPT !.selectedRegion.t1 = s1.playRegion.end])

\* ------------------------------------------------------- HandleQPClick
\* NearerToStart that grabs the start at equal distance too
NearerToStart_OrEqual(s) ==
  LET start == s.mOldPlayRegion.start
      end == s.mOldPlayRegion.end
  IN Abs(Time2Pos(s.mQuickPlayPos) - Time2Pos(start)) <=
       Abs(Time2Pos(s.mQuickPlayPos) - Time2Pos(end))

NearerToStart(s) ==
  LET start == s.mOldPlayRegion.start
      end == s.mOldPlayRegion.end
  IN Abs(Time2Pos(s.mQuickPlayPos) - Time2Pos(start)) <
       Abs(Time2Pos(s.mQuickPlayPos) - Time2Pos(end))

HandleQPClick(s, mousePosX, leftDown) ==
  LET s1 == IF s.mOldPlayRegion.active /\ leftDown
              THEN InactivatePlayRegion(s) ELSE s
      s2 == [s1 EXCEPT !.mLeftDownClickUnsnapped = s1.mQuickPlayPosUnsnapped,
                       !.mLeftDownClick = s1.mQuickPlayPos]
      isWithinStart == IsWithinMarker(mousePosX, s2.mOldPlayRegion.start)
      isWithinEnd == IsWithinMarker(mousePosX, s2.mOldPlayRegion.end)
  IN IF isWithinStart \/ isWithinEnd
       THEN IF PR_Empty(s2.mOldPlayRegion)
              THEN [s2 EXCEPT !.mMouseEventState = mesSelectingPlayRegionClick]
              ELSE IF NearerToStart(s2)
                     THEN [s2 EXCEPT !.mMouseEventState = mesDraggingPlayRegionStart]
                     ELSE [s2 EXCEPT !.mMouseEventState = mesDraggingPlayRegionEnd]
       ELSE [s2 EXCEPT !.mMouseEventState = mesSelectingPlayRegionClick]

\* -------------------------------------------------------- HandleQPDrag
CanDragSel_IgnoresLock(s) == s.mPlayRegionDragsSelection

CanDragSel(s) == ~s.mOldPlayRegion.active /\ s.mPlayRegionDragsSelection

MirrorSelection(s) == IF CanDragSel(s) THEN DragSelection(s) ELSE s

DragNone(s, isWithinStart, isWithinEnd) ==
  IF isWithinStart \/ isWithinEnd
    THEN IF Abs(s.mQuickPlayPos - s.mOldPlayRegion.start) <
              Abs(s.mQuickPlayPos - s.mOldPlayRegion.end)
           THEN [s EXCEPT !.mQuickPlayPos = s.mOldPlayRegion.start]
           ELSE [s EXCEPT !.mQuickPlayPos = s.mOldPlayRegion.end]
    ELSE s

DragPlayRegionStart(s, isWithinStart, isWithinEnd) ==
  LET s1 == IF ~s.mIsDragging /\ isWithinStart
              THEN [s EXCEPT !.mQuickPlayPos = s.mOldPlayRegion.start]
              ELSE [s EXCEPT !.mIsDragging = TRUE]
      s2 == IF isWithinEnd
              THEN [s1 EXCEPT !.mQuickPlayPos = s1.mOldPlayRegion.end]
              ELSE s1
      s3 == [s2 EXCEPT !.playRegion = PR_SetStart(@, s2.mQuickPlayPos)]
  IN MirrorSelection(s3)

DragPlayRegionEnd(s, isWithinStart, isWithinEnd) ==
  LET s1 == IF ~s.mIsDragging /\ isWithinEnd
              THEN [s EXCEPT !.mQuickPlayPos = s.mOldPlayRegion.end]
              ELSE [s EXCEPT !.mIsDragging = TRUE]
      s2 == IF isWithinStart
              THEN [s1 EXCEPT !.mQuickPlayPos = s1.mOldPlayRegion.start]
              ELSE s1
      s3 == [s2 EXCEPT !.playRegion = PR_SetEnd(@, s2.mQuickPlayPos)]
  IN MirrorSelection(s3)

SelectingPlayRegionClick(s, isWithinClick) ==
  IF isWithinClick \/ s.mLeftDownClick = -1
    THEN [s EXCEPT !.mQuickPlayPos = s.mLeftDownClick,
                   !.playRegion = PR_SetTimes(@, s.mLeftDownClick, s.mLeftDownClick)]
    ELSE [s EXCEPT !.mMouseEventState = mesSelectingPlayRegionRange]

SelectingPlayRegionRange_UnsnappedAnchor(s, isWithinClick) ==
  LET s1 == IF isWithinClick
              THEN [s EXCEPT !.mQuickPlayPos = s.mLeftDownClick]
              ELSE s
      s2 == IF s1.mQuickPlayPos < s1.mLeftDownClickUnsnapped
              THEN [s1 EXCEPT !.playRegion =
                      PR_SetTimes(@, s1.mQuickPlayPos, s1.mLeftDownClickUnsnapped)]
              ELSE [s1 EXCEPT !.playRegion =
                      PR_SetTimes(@, s1.mLeftDownClickUnsnapped, s1.mQuickPlayPos)]
  IN MirrorSelection(s2)

SelectingPlayRegionRange(s, isWithinClick) ==
  LET s1 == IF isWithinClick
              THEN [s EXCEPT !.mQuickPlayPos = s.mLeftDownClick]
              ELSE s
      s2 == IF s1.mQuickPlayPos < s1.mLeftDownClick
              THEN [s1 EXCEPT !.playRegion =
                      PR_SetTimes(@, s1.mQuickPlayPos, s1.mLeftDownClick)]
              ELSE [s1 EXCEPT !.playRegion =
                      PR_SetTimes(@, s1.mLeftDownClick, s1.mQuickPlayPos)]
  IN MirrorSelection(s2)

HandleQPDrag(s, mousePosX) ==
  LET isWithinClick == (s.mLeftDownClickUnsnapped >= 0)
                         /\ IsWithinMarker(mousePosX, s.mLeftDownClickUnsnapped)
      isWithinStart == IsWithinMarker(mousePosX, s.mOldPlayRegion.start)
      isWithinEnd == IsWithinMarker(mousePosX, s.mOldPlayRegion.end)
  IN CASE s.mMouseEventState = mesNone ->
            DragNone(s, isWithinStart, isWithinEnd)
       [] s.mMouseEventState = mesDraggingPlayRegionStart ->
            DragPlayRegionStart(s, isWithinStart, isWithinEnd)
       [] s.mMouseEventState = mesDraggingPlayRegionEnd ->
            DragPlayRegionEnd(s, isWithinStart, isWithinEnd)
       [] s.mMouseEventState = mesSelectingPlayRegionClick ->
            SelectingPlayRegionClick(s, isWithinClick)
       [] s.mMouseEventState = mesSelectingPlayRegionRange ->
            SelectingPlayRegionRange(s, isWithinClick)

\* ------------------------------------------------------ the QP handle
\* QPCell::HitTest followed by the construction of the handle at the
\* clamped pixel.
QPCell_HitTest_Recording(s, x, shiftDown) ==
  [UpdateQuickPlayPos(s, x, shiftDown, TRUE) EXCEPT !.mX = ClampX(x)]

QPCell_HitTest(s, x, shiftDown) ==
  IF ~s.mIsRecording
    THEN [UpdateQuickPlayPos(s, x, shiftDown, TRUE) EXCEPT !.mX = ClampX(x)]
    ELSE s

\* ScrubbingCell::HitTest followed by the construction of the handle
ScrubbingCell_HitTest(s, x, shiftDown) ==
  IF ~s.mIsRecording
    THEN [UpdateQuickPlayPos(s, x, shiftDown, FALSE) EXCEPT !.mX = ClampX(x)]
    ELSE s

\* "Disable mouse actions on Timeline while recording.": the hit test of
\* either cell has a handle in its results only when not recording
HandleReturned(s) == ~s.mIsRecording

\* ProjectAudioManager::OnPause, outside this file: a request to the transport
OnPause(s) ==
  [s EXCEPT !.requests = Append(@, [req |-> "pause", start |-> Unset,
                                     end |-> Unset, mode |-> "none"])]

CommonRulerHandle_Click(s, leftIsDown) ==
  [s EXCEPT !.mClicked = IF leftIsDown THEN "Left" ELSE "Right"]

QPHandle_Click(s, leftIsDown) ==
  LET s1 == CommonRulerHandle_Click(s, leftIsDown)
  IN IF s1.mClicked = "Left"
       THEN LET s0 == IF s1.hasMark THEN OnPause(s1) ELSE s1
                s2 == [s0 EXCEPT !.mOldPlayRegion = s0.playRegion,
                                 !.mOldSelection = s0.selectedRegion]
                s3 == HandleQPClick(s2, s2.mX, leftIsDown)
            IN HandleQPDrag(s3, s3.mX)
       ELSE s1

QPHandle_Drag(s, x, shiftDown) ==
  IF s.mClicked = "Left"
    THEN LET s1 == [UpdateQuickPlayPos(s, x, shiftDown, TRUE) EXCEPT !.mX = ClampX(x)]
         IN HandleQPDrag(s1, s1.mX)
    ELSE s

\* ----------------------------------------------------- HandleQPRelease
\* playRegion.Order()
ReleaseOrder_Skipped(s) == s

ReleaseOrder(s) == [s EXCEPT !.playRegion = PR_Order(@)]

\* the three tests of the chain that clears a region with nothing to play
\* "Disable if track selection is in white-space beyond end of tracks and
\*  play position is outside of track contents."
SelectionOutside_Both(sel0, sel1, t0, t1) == (sel1 < t0) /\ (sel0 > t1)

SelectionOutside(sel0, sel1, t0, t1) == (sel1 < t0) \/ (sel0 > t1)

LoopOutsideTracks(pr, sel0, sel1, t0, t1) ==
  SelectionOutside(sel0, sel1, t0, t1) /\ ((pr.start < t0) \/ (pr.start > t1))

\* "Disable if beyond end."
BeyondEnd_Strict(pr, t1) == pr.start > t1

BeyondEnd(pr, t1) == pr.start >= t1

\* "Disable if empty selection before start."
BeforeStart_AnyLength(pr, t0) == pr.end < t0

BeforeStart(pr, t0) == (pr.end - pr.start > 0) /\ (pr.end < t0)

ValidityPolicy(s, shiftDown, cb) ==
  LET pr == s.playRegion
      t0 == tracks.t0
      t1 == tracks.t1
      sel0 == s.selectedRegion.t0
      sel1 == s.selectedRegion.t1
  IN IF shiftDown /\ PR_Empty(pr)
       THEN IF LoopOutsideTracks(pr, sel0, sel1, t0, t1)
              THEN ClearPlayRegion(s, cb)
              ELSE s
       ELSE IF BeyondEnd(pr, t1)
              THEN ClearPlayRegion(s, cb)
              ELSE IF BeforeStart(pr, t0)
                     THEN ClearPlayRegion(s, cb)
                     ELSE s

ReleaseReset(s) ==
  [s EXCEPT !.mMouseEventState = mesNone, !.mIsDragging = FALSE,
            !.mLeftDownClick = -1]

\* a finally-block that only releases the local lock
ReleaseCleanup_LockOnly(s) ==
  [s EXCEPT !.mOldPlayRegion = PR_SetActive(@, FALSE)]

\* the finally-block: restore a region that was locked at mouse-down
ReleaseCleanup(s) ==
  IF s.mOldPlayRegion.active
    THEN LET s1 == SetPlayRegion(s, s.mOldPlayRegion.start, s.mOldPlayRegion.end)
         IN [ActivatePlayRegion(s1) EXCEPT !.mOldPlayRegion = PR_SetActive(@, FALSE)]
    ELSE s

HandleQPRelease(s, shiftDown, controlDown, cb, uninit) ==
  LET s1 == ValidityPolicy(ReleaseOrder(s), shiftDown, cb)
      s2 == ReleaseReset(s1)
      s3 == StartQPPlay(s2, shiftDown, controlDown, cb, uninit)
  IN ReleaseCleanup(s3)

\* QPHandle::Release; the handle is dropped when the gesture is over.
QPHandle_Release(s, shiftDown, controlDown, cb, uninit) ==
  IF s.mClicked = "Left"
    THEN LET s1 == HandleQPRelease(s, shiftDown, controlDown, cb, uninit)
         IN [s1 EXCEPT !.mOldPlayRegion = s1.playRegion, !.mClicked = "None"]
    ELSE [s EXCEPT !.mClicked = "None"]

\* ------------------------------------------------------------- history
\* What the last event was: its modifier keys, the mode it found (mes0), and
\* for a release the region after Order() and after the validity policy.
Event(op, shiftDown, ordered, policy, cleared) ==
  [ op |-> op, shift |-> shiftDown,
    mes0 |-> mMouseEventState,
    ordered |-> ordered, policy |-> policy, cleared |-> cleared ]

NoSpan == [start |-> Unset, end |-> Unset]

PlainEvent(op, shiftDown) ==
  Event(op, shiftDown, NoSpan, NoSpan, FALSE)

SpanOf(pr) == [start |-> pr.start, end |-> pr.end]

\* ---------------------------------------------------------------- Init
\* the member initialisers of the two overlays
OverlaysFresh ==
  /\ rulerOverlay = [ mNewQPIndicatorPos |-> -1, mNewScrub |-> FALSE,
                      mNewSeek |-> FALSE, mOldQPIndicatorPos |-> -1,
                      mOldScrub |-> FALSE, mOldSeek |-> FALSE ]
  /\ guideline = [ mNewIndicatorSnapped |-> FALSE,
                   mNewPreviewingScrub |-> FALSE, mOldQPIndicatorPos |-> -1,
                   mOldIndicatorSnapped |-> FALSE,
                   mOldPreviewingScrub |-> FALSE ]

\* a wxRect
Rect(x, y, width, height) ==
  [x |-> x, y |-> y, width |-> width, height |-> height]

\* AdornedRulerPanel::GetRulerHeight
GetRulerHeight(showScrubBar) ==
  ProperRulerHeight + (IF showScrubBar THEN ScrubHeight ELSE 0)

\* The panel as constructed: created with the height of the ruler without the
\* scrub bar, mOuter the client rectangle, the other rectangles and the
\* members written by OnPaint value-initialised, nothing painted yet.
PanelFresh(width) ==
  /\ clientRect = Rect(0, 0, width, GetRulerHeight(FALSE))
  /\ showsBar = FALSE
  /\ mOuter = clientRect
  /\ mInner = Rect(0, 0, 0, 0)
  /\ mScrubZone = Rect(0, 0, 0, 0)
  /\ mLastDrawnH = 0
  /\ mLastDrawnZoom = 0
  /\ mLastDrawnPlayRegion = << 0, 0 >>
  /\ mDirtyPlayRegion = FALSE
  /\ mLastPlayRegionActive = FALSE
  /\ needsPaint = FALSE

UnsetRegion == MkRegion(Unset, Unset, FALSE, Unset, Unset)

\* The constructor ends with DoSelectionChange: an inactive region starts
\* equal to the selection.  An active region has its own bounds.
InitRegions(sel) ==
  { MkRegion(sel.t0, sel.t1, FALSE, Unset, Unset) }
    \cup { MkRegion(r.t0, r.t1, TRUE, r.t0, r.t1) : r \in ExternalRegions }

Init ==
  /\ tracks \in TrackSpans
  /\ zoom \in Zooms
  /\ hpos = 0
  /\ mLeftOffset = 1
  /\ usableWidth \in {0, Width}
  /\ selectedRegion \in Selections
  /\ playRegion \in InitRegions(selectedRegion)
  /\ mOldPlayRegion = UnsetRegion
  /\ mOldSelection = [t0 |-> 0, t1 |-> 0]
  /\ mMouseEventState = mesNone
  /\ mIsDragging = FALSE
  /\ mLeftDownClick = -1
  /\ mLeftDownClickUnsnapped = -1
  /\ mQuickPlayPos = 0
  /\ mQuickPlayPosUnsnapped = 0
  /\ mIsSnapped = FALSE
  /\ mIsRecording = FALSE
  /\ mPlayRegionDragsSelection \in BOOLEAN
  /\ mClicked = "None"
  /\ mX = 0
  /\ audioActive = FALSE
  /\ hasMark = FALSE
  /\ scrubTarget = FALSE
  /\ OverlaysFresh
  /\ PanelFresh(PanelWidth)
  /\ requests = << >>
  /\ ev = [ op |-> "Init", shift |-> FALSE, mes0 |-> mesNone,
            ordered |-> NoSpan, policy |-> NoSpan, cleared |-> FALSE ]
  /\ pre = [pr |-> playRegion, sel |-> selectedRegion, x |-> 0]
  /\ nGestures = 0
  /\ nMoves = 0
  /\ nExternal = 0

\* ------------------------------------------------------------- actions
\* A mouse-down in the quick-play cell: the hit test, then the click of the
\* handle it returned, if any.
QPCell_MouseDown(s, x, shiftDown, leftIsDown) ==
  LET s1 == QPCell_HitTest(s, x, shiftDown)
  IN IF HandleReturned(s) THEN QPHandle_Click(s1, leftIsDown) ELSE s1

\* A mouse-down in the scrub cell at pixel x.
ScrubbingCell_MouseDown(s, x, shiftDown, leftIsDown, canScrub, showing) ==
  LET s1 == ScrubbingCell_HitTest(s, x, shiftDown)
  IN IF HandleReturned(s)
       THEN ScrubbingHandle_Click(s1, x, leftIsDown, canScrub, showing)
       ELSE s1

\* history of a mouse-down: a gesture has started when a handle was hit
Started(op, x, shiftDown) ==
  IF HandleReturned(St)
    THEN /\ ev' = PlainEvent(op, shiftDown)
         /\ pre' = [pr |-> playRegion, sel |-> selectedRegion, x |-> ClampX(x)]
         /\ nGestures' = nGestures + 1
         /\ nMoves' = 0
         /\ UNCHANGED nExternal
    ELSE /\ ev' = PlainEvent("NoHandle", shiftDown)
         /\ UNCHANGED << pre, nGestures, nMoves, nExternal >>

\* Left mouse-down in the quick-play cell: hit test, then QPHandle::Click.
MouseDownLeft(x, shiftDown) ==
  /\ mClicked = "None"
  /\ HandleReturned(St) => nGestures < MaxGestures
  /\ Apply(QPCell_MouseDown(St, x, shiftDown, TRUE))
  /\ Started("Click", x, shiftDown)

\* Right mouse-down: the handle only remembers the button.
MouseDownRight(x, shiftDown) ==
  /\ mClicked = "None"
  /\ HandleReturned(St) => nGestures < MaxGestures
  /\ Apply(QPCell_MouseDown(St, x, shiftDown, FALSE))
  /\ Started("RightClick", x, shiftDown)

\* Mouse-move with the button held: QPHandle::Drag.
MouseMove(x, shiftDown) ==
  /\ mClicked # "None"
  /\ nMoves < MaxMoves
  /\ Apply(IF scrubTarget THEN ScrubbingHandle_Drag(St)
                           ELSE QPHandle_Drag(St, x, shiftDown))
  /\ ev' = PlainEvent("Drag", shiftDown)
  /\ nMoves' = nMoves + 1
  /\ UNCHANGED << pre, nGestures, nExternal >>

\* Mouse-up: QPHandle::Release.  The stop event can only be delivered during
\* the call (cb) when the transport is playing.
MouseUp(shiftDown, controlDown, cb, uninit) ==
  /\ mClicked # "None"
  /\ cb => audioActive
  /\ Apply(IF scrubTarget
             THEN ScrubbingHandle_Release(St)
             ELSE QPHandle_Release(St, shiftDown, controlDown, cb, uninit))
  /\ LET o == ReleaseOrder(St)
         p == ValidityPolicy(o, shiftDown, cb)
     IN ev' = IF scrubTarget
                THEN PlainEvent("ScrubRelease", shiftDown)
                ELSE Event("Release", shiftDown,
                           SpanOf(o.playRegion), SpanOf(p.playRegion),
                           Len(p.requests) > 0)
  /\ nMoves' = 0
  /\ UNCHANGED << pre, nGestures, nExternal >>

\* Escape key or loss of focus: CellularPanel::CancelDragging.
CancelGesture ==
  /\ mClicked # "None"
  /\ Apply(CancelDragging(St))
  /\ ev' = PlainEvent("Cancel", FALSE)
  /\ nMoves' = 0
  /\ UNCHANGED << pre, nGestures, nExternal >>

\* The selection is changed elsewhere; the panel is notified.
SelectionChange(sel) ==
  /\ nExternal < MaxExternal
  /\ sel # selectedRegion
  /\ Apply(OnSelectionChange([St EXCEPT !.selectedRegion = sel]))
  /\ ev' = PlainEvent("SelectionChange", FALSE)
  /\ nExternal' = nExternal + 1
  /\ UNCHANGED << pre, nGestures, nMoves >>

\* A caller outside the panel sets the play region.
ExternalSetPlayRegion(r) ==
  /\ nExternal < MaxExternal
  /\ Apply(SetPlayRegion(St, r.t0, r.t1))
  /\ ev' = PlainEvent("SetPlayRegion", FALSE)
  /\ nExternal' = nExternal + 1
  /\ UNCHANGED << pre, nGestures, nMoves >>

\* The transport has stopped: the audio-stop event arrives.
PlaybackStops ==
  /\ audioActive
  /\ Apply(OnAudioStartStop([St EXCEPT !.audioActive = FALSE], FALSE, 0))
  /\ ev' = PlainEvent("AudioStop", FALSE)
  /\ UNCHANGED << pre, nGestures, nMoves, nExternal >>

CaptureStart ==
  /\ ~mIsRecording
  /\ nExternal < MaxExternal
  /\ Apply(OnAudioStartStop(St, TRUE, 1))
  /\ ev' = PlainEvent("CaptureStart", FALSE)
  /\ nExternal' = nExternal + 1
  /\ UNCHANGED << pre, nGestures, nMoves >>

CaptureStop ==
  /\ mIsRecording
  /\ Apply(OnAudioStartStop(St, TRUE, 0))
  /\ ev' = PlainEvent("CaptureStop", FALSE)
  /\ UNCHANGED << pre, nGestures, nMoves, nExternal >>

Next ==
  \/ \E x \in MouseXs, sh \in BOOLEAN : MouseDownLeft(x, sh)
  \/ \E x \in MouseXs, sh \in BOOLEAN : MouseDownRight(x, sh)
  \/ \E x \in MouseXs, sh \in BOOLEAN : MouseMove(x, sh)
  \/ \E sh \in BOOLEAN, ct \in BOOLEAN, cb \in BOOLEAN, un \in BOOLEAN :
        MouseUp(sh, ct, cb, un)
  \/ CancelGesture
  \/ \E sel \in Selections : SelectionChange(sel)
  \/ \E r \in ExternalRegions : ExternalSetPlayRegion(r)
  \/ PlaybackStops
  \/ CaptureStart
  \/ CaptureStop

Spec == Init /\ [][Next]_vars

\* ========================================================== properties
\* a left-button gesture was live when the last event arrived
LeftGestureWas == ev.mes0 # mesNone

\* the last event cancelled the gesture (Escape / focus loss, or the start
\* of a recording)
Cancelled == ev.op \in {"Cancel", "CaptureStart"} /\ LeftGestureWas

\* C1: after mouse-down, any number of moves and Cancel, the play region
\* (start, end, active flag) and the selection are what they were
\* immediately before the mouse-down.
C1_CancelRestores ==
  Cancelled =>
    /\ SpanOf(playRegion) = SpanOf(pre.pr)
    /\ playRegion.active = pre.pr.active
    /\ selectedRegion = pre.sel

\* a gesture that dragged the end of a mirrored region away was cancelled
C1_Witness ==
  /\ ev.op = "Cancel"
  /\ ev.mes0 = mesDraggingPlayRegionEnd
  /\ mPlayRegionDragsSelection /\ ~pre.pr.active
  /\ mIsDragging
  /\ mQuickPlayPos # pre.pr.end
  /\ SpanOf(playRegion) = SpanOf(pre.pr)

\* C2: while a session is live, a call of SetPlayRegion from outside - direct,
\* by a selection-change notification or by an audio event - leaves the play
\* region as it is.
ExternalOps == {"SetPlayRegion", "SelectionChange", "AudioStop", "CaptureStop"}

C3_EndsInNone ==
  (ev.op \in {"Release", "Cancel", "CaptureStart"}) => mMouseEventState = mesNone

\* SelectingRange is entered only from ClickPending and only by a mouse-move
C3_RangeOnlyByMove ==
  [][ (mMouseEventState' = mesSelectingPlayRegionRange
         /\ mMouseEventState # mesSelectingPlayRegionRange)
        => (mMouseEventState = mesSelectingPlayRegionClick /\ ev'.op = "Drag") ]_vars

\* C3: the mode is None after every mouse-up and every Cancel of a
\* left-button gesture, and SelectingRange is reachable only from ClickPending
\* by a mouse-move, never directly from None, DraggingStart or DraggingEnd.
C3_ModeReturnsToNone == []C3_EndsInNone /\ C3_RangeOnlyByMove

\* ------------------------------------------------- the new-region gesture
NotNearEdge(x, pr) ==
  ~IsWithinMarker(x, pr.start) /\ ~IsWithinMarker(x, pr.end)

InsideTracks(t) == tracks.t0 <= t /\ t <= tracks.t1

\* the live gesture began with a mouse-down on the time axis, away from both
\* edges of the region of that moment
NewRegionGesture ==
  /\ mClicked = "Left"
  /\ mLeftDownClickUnsnapped >= 0
  /\ NotNearEdge(pre.x, pre.pr)

\* the click leaves the point region [A, A]
C4_PointAtClick ==
  (ev.op = "Click" /\ NewRegionGesture)
    => SpanOf(playRegion) = [start |-> mLeftDownClick, end |-> mLeftDownClick]

\* at least one move was made and the pointer is now beyond the tolerance of
\* the click, at time T = mQuickPlayPos; A = mLeftDownClick; both in the tracks
C4_Dragged ==
  /\ NewRegionGesture
  /\ nMoves >= 1
  /\ ~IsWithinMarker(mX, mLeftDownClickUnsnapped)
  /\ InsideTracks(mLeftDownClick)
  /\ InsideTracks(mQuickPlayPos)

C4_RangeSpan ==
  [start |-> Min(mLeftDownClick, mQuickPlayPos),
   end |-> Max(mLeftDownClick, mQuickPlayPos)]

\* C4 as stated: the shift-release after a drag of N >= 1 moves leaves
\* [min(A,T), max(A,T)].
C4_AnyNumberOfMoves ==
  /\ []C4_PointAtClick
  /\ [][ (C4_Dragged /\ ev'.op = "Release" /\ ev'.shift)
           => SpanOf(playRegion') = C4_RangeSpan ]_vars

\* the last move was handled in SelectingRange (it follows the move that left
\* the tolerance), ended at T # A, and the region was inactive at mouse-down
C4_Settled ==
  /\ C4_Dragged
  /\ ~pre.pr.active
  /\ ev.op = "Drag" /\ ev.mes0 = mesSelectingPlayRegionRange
  /\ mLeftDownClick # mQuickPlayPos

\* C4: a left mouse-down at time A away from both edges makes the region
\* [A, A]; after a drag whose last move was handled in SelectingRange, to a
\* time T # A beyond tolerance of A (both inside the track span), with the
\* region inactive at mouse-down, the shift-release leaves [min(A,T), max(A,T)].
C4_NewRegionGesture ==
  /\ []C4_PointAtClick
  /\ [][ (C4_Settled /\ ev'.op = "Release" /\ ev'.shift)
           => SpanOf(playRegion') = C4_RangeSpan ]_vars

\* a shift-release ended such a drag and its range is being played
C4_Witness ==
  /\ ev.op = "Release" /\ ev.shift
  /\ ev.mes0 = mesSelectingPlayRegionRange
  /\ ~pre.pr.active
  /\ NotNearEdge(pre.x, pre.pr)
  /\ mLeftDownClickUnsnapped >= 0
  /\ playRegion.start < playRegion.end
  /\ playRegion.end = mQuickPlayPos
  /\ InsideTracks(playRegion.start) /\ InsideTracks(playRegion.end)
  /\ \E i \in 1..Len(requests) :
        /\ requests[i].req = "play"
        /\ requests[i].start = playRegion.start
        /\ requests[i].end = playRegion.end

\* ---------------------------------------------------- selection mirroring
\* mirroring is enabled and the region was inactive at mouse-down
MirrorOn == mPlayRegionDragsSelection /\ ~pre.pr.active

RegionModes ==
  {mesDraggingPlayRegionStart, mesDraggingPlayRegionEnd, mesSelectingPlayRegionRange}

\* the step is a mouse-move of a left-button gesture
LeftMove == mClicked = "Left" /\ ev'.op = "Drag"

\* C5 as stated: after a move in a region mode the selection equals the
\* region if and only if mirroring applies.
C5_MirrorIff ==
  [][ LeftMove =>
        /\ (mMouseEventState \in RegionModes) =>
             (   (/\ selectedRegion'.t0 = playRegion'.start
                  /\ selectedRegion'.t1 = playRegion'.end)
             <=> MirrorOn )
        /\ (~MirrorOn \/ mMouseEventState = mesSelectingPlayRegionClick)
             => selectedRegion' = selectedRegion ]_vars

\* C5: after every mouse-move processed in DraggingStart, DraggingEnd or
\* SelectingRange with mirroring enabled and the region inactive at
\* mouse-down, the selection's two bounds are the play region's two bounds
\* (t0 = start and t1 = end when start <= end); with mirroring disabled, the
\* region active at mouse-down, or mode ClickPending, the move leaves the
\* selection unchanged.
C5_SelectionMirroring ==
  [][ LeftMove =>
        /\ (mMouseEventState \in RegionModes /\ MirrorOn) =>
             /\ {selectedRegion'.t0, selectedRegion'.t1}
                  = {playRegion'.start, playRegion'.end}
             /\ (playRegion'.start <= playRegion'.end) =>
                  /\ selectedRegion'.t0 = playRegion'.start
                  /\ selectedRegion'.t1 = playRegion'.end
        /\ (~MirrorOn \/ mMouseEventState = mesSelectingPlayRegionClick)
             => selectedRegion' = selectedRegion ]_vars

\* a move dragged the end of a mirrored region and took the selection along
C5_Witness ==
  /\ ev.op = "Drag" /\ ev.mes0 = mesDraggingPlayRegionEnd
  /\ mClicked = "Left"
  /\ MirrorOn
  /\ mIsDragging
  /\ selectedRegion # pre.sel
  /\ selectedRegion.t1 = playRegion.end

\* ------------------------------------------------------------ the release
\* the step is the mouse-up of a left-button gesture
LeftRelease == mClicked = "Left" /\ ev'.op = "Release"

\* the last event was the mouse-up of a left-button gesture
LeftReleased == ev.op = "Release" /\ LeftGestureWas

Sorted(span) ==
  IF span.start > span.end
    THEN [start |-> span.end, end |-> span.start]
    ELSE span

SpanEmpty(span) == span.end - span.start <= 0

PlayRequested == \E i \in 1..Len(requests) : requests[i].req = "play"

\* C6: the release normalizes a region that a drag left with start > end to
\* start <= end with the same two bound values, swapped; an ordered region is
\* left as it is; the validity policy and the playback work on that region.
C6_OrderOnRelease ==
  [][ LeftRelease =>
        /\ ev'.ordered = Sorted(SpanOf(playRegion))
        /\ ev'.ordered.start <= ev'.ordered.end
        /\ (~ev'.cleared /\ ~pre.pr.active /\ ~(ev'.shift /\ SpanEmpty(ev'.ordered)))
             => SpanOf(playRegion') = Sorted(SpanOf(playRegion)) ]_vars

\* a drag of the start edge past the end edge was released and swapped
C6_Witness ==
  /\ LeftReleased
  /\ ev.mes0 = mesDraggingPlayRegionStart
  /\ ~pre.pr.active
  /\ ~ev.cleared
  /\ ev.ordered.start = pre.pr.end
  /\ ev.ordered.end > pre.pr.end
  /\ SpanOf(playRegion) = ev.ordered

\* C7 as stated: whenever rule 1 did not clear and the ordered start is >= t1
\* the region is cleared, for every shift state and emptiness.
C7_BeyondEndAlways ==
  (LeftReleased /\ ev.ordered.start >= tracks.t1) => ev.policy = NoSpan

\* C7: on mouse-up, unless shift is held and the region is empty, an ordered
\* region start >= t1 clears the region to the unset value; no playback is
\* requested, and a region that was inactive at mouse-down stays unset.
C7_BeyondEnd ==
  (/\ LeftReleased
   /\ ~(ev.shift /\ SpanEmpty(ev.ordered))
   /\ ev.ordered.start >= tracks.t1)
    => /\ ev.cleared /\ ev.policy = NoSpan
       /\ ~PlayRequested
       /\ ~pre.pr.active => SpanOf(playRegion) = NoSpan

\* a click exactly at the track end, released without shift, was cleared
C7_Witness ==
  /\ LeftReleased /\ ~ev.shift
  /\ ev.ordered.start = tracks.t1
  /\ ev.cleared
  /\ SpanOf(playRegion) = NoSpan

\* the selection lies entirely outside the track span
SelOutsideTracks ==
  selectedRegion.t1 < tracks.t0 \/ selectedRegion.t0 > tracks.t1

\* C8: on mouse-up with shift held and an empty region, if the selection lies
\* entirely outside the track span and the region start lies outside the track
\* span, the region is cleared to (-1, -1) and no playback is requested.
C8_LoopOutside ==
  (/\ LeftReleased /\ ev.shift
   /\ SpanEmpty(ev.ordered)
   /\ SelOutsideTracks
   /\ (ev.ordered.start < tracks.t0 \/ ev.ordered.start > tracks.t1))
    => /\ ev.cleared /\ ev.policy = NoSpan
       /\ ~PlayRequested
       /\ ~pre.pr.active => SpanOf(playRegion) = NoSpan

\* a shift-click beyond the track end with the selection before the tracks
C8_Witness ==
  /\ LeftReleased /\ ev.shift
  /\ ev.ordered.start = ev.ordered.end
  /\ ev.ordered.start > tracks.t1
  /\ selectedRegion.t1 < tracks.t0
  /\ ev.cleared
  /\ Len(requests) = 1 /\ requests[1].req = "stop"
  /\ SpanOf(playRegion) = NoSpan

\* C9: on mouse-up a non-empty region whose end is < t0 is cleared to the
\* unset value; an empty region before the track start is not cleared by that
\* rule (released without shift it stands).
C9_BeforeStart ==
  /\ (LeftReleased /\ ~SpanEmpty(ev.ordered) /\ ev.ordered.end < tracks.t0)
       => (ev.cleared /\ ev.policy = NoSpan /\ ~PlayRequested)
  /\ (LeftReleased /\ ~ev.shift /\ SpanEmpty(ev.ordered)
        /\ ev.ordered.start < tracks.t0)
       => (~ev.cleared /\ ev.policy = ev.ordered)

\* a non-empty region that ends before the first track was released
C9_Witness ==
  /\ LeftReleased
  /\ ev.ordered.start >= 0
  /\ ev.ordered.start < ev.ordered.end
  /\ ev.ordered.end < tracks.t0
  /\ ev.cleared
  /\ ~pre.pr.active /\ SpanOf(playRegion) = NoSpan

\* a point before the first track was released without shift and stands
C9_WitnessPoint ==
  /\ LeftReleased /\ ~ev.shift
  /\ ev.ordered.start = ev.ordered.end
  /\ ev.ordered.start >= 0 /\ ev.ordered.start < tracks.t0
  /\ ~ev.cleared

\* C10: on a mouse-up without shift, the region inactive at mouse-down, a
\* region whose ordered start is < t1 and that is empty or has end >= t0 is
\* not cleared, and its bounds after the release and the playback request are
\* the ordered bounds it had at the end of the drag.
C10_RegionStands ==
  (/\ LeftReleased /\ ~ev.shift
   /\ ~pre.pr.active
   /\ ev.ordered.start < tracks.t1
   /\ (SpanEmpty(ev.ordered) \/ ev.ordered.end >= tracks.t0))
    => /\ ~ev.cleared
       /\ SpanOf(playRegion) = ev.ordered

\* a region from before the first track to beyond the last was released,
\* stands and is being played
C10_Witness ==
  /\ LeftReleased /\ ~ev.shift
  /\ ~pre.pr.active
  /\ ev.ordered.start >= 0 /\ ev.ordered.start < tracks.t0
  /\ ev.ordered.end > tracks.t1
  /\ SpanOf(playRegion) = ev.ordered
  /\ \E i \in 1..Len(requests) :
        /\ requests[i].req = "play"
        /\ requests[i].start = ev.ordered.start
        /\ requests[i].end = ev.ordered.end

\* ========================================== StartQPPlay as a function
\* regions on which StartQPPlay is called: unset and negative starts, points,
\* inverted regions, spans at and around the loop threshold
PlayStarts == {-2, -1, 0, 2, 3, 4, 12}

PlayLengths == {-1, 0, 1, 2, 3}

PlayInputs ==
  { MkRegion(st, st + ln, a, IF a THEN st ELSE Unset, IF a THEN st + ln ELSE Unset) :
      st \in PlayStarts, ln \in PlayLengths, a \in BOOLEAN }

InitPlay ==
  /\ tracks \in TrackSpans
  /\ zoom \in Zooms
  /\ hpos = 0
  /\ mLeftOffset = 1
  /\ usableWidth = Width
  /\ selectedRegion \in Selections
  /\ playRegion \in PlayInputs
  /\ mOldPlayRegion = UnsetRegion
  /\ mOldSelection = [t0 |-> 0, t1 |-> 0]
  /\ mMouseEventState = mesNone
  /\ mIsDragging = FALSE
  /\ mLeftDownClick = -1
  /\ mLeftDownClickUnsnapped = -1
  /\ mQuickPlayPos = 0
  /\ mQuickPlayPosUnsnapped = 0
  /\ mIsSnapped = FALSE
  /\ mIsRecording = FALSE
  /\ mPlayRegionDragsSelection = FALSE
  /\ mClicked = "None"
  /\ mX = 0
  /\ audioActive \in BOOLEAN
  /\ hasMark = FALSE
  /\ scrubTarget = FALSE
  /\ OverlaysFresh
  /\ PanelFresh(PanelWidth)
  /\ requests = << >>
  /\ ev = [ op |-> "Init", looped |-> FALSE, cutPreview |-> FALSE, cb |-> FALSE ]
  /\ pre = [pr |-> playRegion, sel |-> selectedRegion, x |-> 0]
  /\ nGestures = 0
  /\ nMoves = 0
  /\ nExternal = 0

\* one call StartQPPlay(looped, cutPreview); pre is the state it finds, cb
\* whether the audio-stop event was delivered during the call of Stop
CallStartQPPlay(looped, cutPreview, cb, uninit) ==
  /\ cb => audioActive
  /\ Apply(StartQPPlay(St, looped, cutPreview, cb, uninit))
  /\ ev' = [ op |-> "StartQPPlay", looped |-> looped, cutPreview |-> cutPreview,
             cb |-> cb ]
  /\ pre' = [pr |-> playRegion, sel |-> selectedRegion, x |-> 0]
  /\ UNCHANGED << nGestures, nMoves, nExternal >>

\* the transport has played to the end: the audio-stop event arrives
PlayEnds ==
  /\ audioActive
  /\ Apply(OnAudioStartStop([St EXCEPT !.audioActive = FALSE], FALSE, 0))
  /\ ev' = [ op |-> "AudioStop", looped |-> FALSE, cutPreview |-> FALSE,
             cb |-> FALSE ]
  /\ UNCHANGED << pre, nGestures, nMoves, nExternal >>

NextPlay ==
  \/ \E lp \in BOOLEAN, ct \in BOOLEAN, cb \in BOOLEAN, un \in BOOLEAN :
        CallStartQPPlay(lp, ct, cb, un)
  \/ PlayEnds

SpecPlay == InitPlay /\ [][NextPlay]_vars

\* the last step was a call of StartQPPlay / on a valid region
PlayCalled == ev.op = "StartQPPlay"

ValidCall == PlayCalled /\ pre.pr.start >= 0

\* the last request of the call and its span
PlayReq == requests[Len(requests)]

ReqLength == PlayReq.end - PlayReq.start

\* the span the call is to play, from the state it found
ExpectedSpan ==
  IF (pre.pr.end - pre.pr.start <= 0) /\ ev.looped
    THEN IF pre.sel.t0 < pre.pr.start /\ pre.pr.start < pre.sel.t1
           THEN [start |-> pre.sel.t0, end |-> pre.sel.t1]
           ELSE [start |-> tracks.t0, end |-> tracks.t1]
    ELSE [start |-> pre.pr.start, end |-> pre.pr.end]

\* C11: when the region start is negative at the call, StartQPPlay issues no
\* stop request and no play request and leaves the region unchanged.
C11_UnsetNotPlayed ==
  (PlayCalled /\ pre.pr.start < 0)
    => /\ requests = << >>
       /\ playRegion = pre.pr

\* StartQPPlay was called with loop on the unset region and did nothing
C11_Witness ==
  /\ PlayCalled /\ ev.looped
  /\ SpanOf(pre.pr) = NoSpan
  /\ requests = << >>
  /\ SpanOf(playRegion) = NoSpan

\* (gesture model) a release that cleared the region requests no playback
C11_ClearedNotPlayed ==
  (LeftReleased /\ ev.cleared) => ~PlayRequested

\* C12: with looped = true on an empty region with start >= 0 the span
\* requested for playback is the selection if the start lies strictly inside
\* it and the whole track span otherwise; for a non-empty region or
\* looped = false it is the region's own [start, end].
C12_LoopAPoint ==
  ValidCall =>
    /\ PlayReq.req = "play"
    /\ [start |-> PlayReq.start, end |-> PlayReq.end] = ExpectedSpan
    /\ SpanOf(playRegion) = ExpectedSpan

\* a point on the boundary of the selection was looped: the tracks are played
C12_Witness ==
  /\ ValidCall /\ ev.looped
  /\ pre.pr.start = pre.pr.end
  /\ pre.pr.start = pre.sel.t1
  /\ PlayReq.start = tracks.t0 /\ PlayReq.end = tracks.t1

\* a point strictly inside the selection was looped: the selection is played
C12_WitnessInside ==
  /\ ValidCall /\ ev.looped
  /\ pre.pr.start = pre.pr.end
  /\ pre.sel.t0 < pre.pr.start /\ pre.pr.start < pre.sel.t1
  /\ PlayReq.start = pre.sel.t0 /\ PlayReq.end = pre.sel.t1

\* C13: without cutPreview, StartQPPlay on a valid region requests looped
\* playback if and only if looped is true and the effective span is longer
\* than 0.001, and normal playback in every other case.
C13_LoopedIffAsked ==
  (ValidCall /\ ~ev.cutPreview) =>
    /\ PlayReq.mode \in {"loopedPlay", "normalPlay"}
    /\ PlayReq.mode = "loopedPlay" <=> (ev.looped /\ ReqLength > LoopMinSpan)

\* C14 as stated: with cutPreview = true the mode is always the cut preview.
C14_CutPreviewAlways ==
  (ValidCall /\ ev.cutPreview) => PlayReq.mode = "cutPreviewPlay"

\* C14: with cutPreview = true on a valid region the mode is the cut preview
\* whenever the effective span is too short for looping (<= 0.001); over a
\* longer span the loop flag overrides cutPreview and the mode is looped
\* playback or the cut preview, never normal playback.
C14_CutPreview ==
  (ValidCall /\ ev.cutPreview) =>
    /\ PlayReq.mode \in {"cutPreviewPlay", "loopedPlay"}
    /\ (ReqLength <= LoopMinSpan) => PlayReq.mode = "cutPreviewPlay"

\* cutPreview and looped were both asked over a span at the threshold
C14_Witness ==
  /\ ValidCall /\ ev.cutPreview /\ ev.looped
  /\ ReqLength = LoopMinSpan
  /\ PlayReq.mode = "cutPreviewPlay"

\* C15: StartQPPlay never requests looped playback over an effective span
\* that is not longer than 0.001; such a span is played once.
C15_NoTinyLoop ==
  ValidCall => (PlayReq.mode = "loopedPlay" => ReqLength > LoopMinSpan)

\* looping was asked over a span of exactly 0.001 and it is played once
C15_Witness ==
  /\ ValidCall /\ ev.looped /\ ~ev.cutPreview
  /\ ReqLength = LoopMinSpan
  /\ PlayReq.mode = "normalPlay"

\* C16: every StartQPPlay call on a valid region issues exactly one stop
\* request followed by exactly one play request over the effective span; a
\* call on an invalid region issues neither.
C16_StopThenPlay ==
  /\ ValidCall =>
       /\ Len(requests) = 2
       /\ requests[1].req = "stop"
       /\ requests[2].req = "play"
       /\ [start |-> requests[2].start, end |-> requests[2].end] = ExpectedSpan
  /\ (PlayCalled /\ ~ValidCall) => requests = << >>

\* a call while the transport was playing stopped it and played the region
C16_Witness ==
  /\ ValidCall
  /\ pre.pr.start < pre.pr.end
  /\ Len(requests) = 2
  /\ requests[1].req = "stop"
  /\ requests[2].req = "play"
  /\ requests[2].start = pre.pr.start /\ requests[2].end = pre.pr.end
  /\ audioActive

\* ------------------------------- the inactive region and the selection
SelectionSpan == [start |-> selectedRegion.t0, end |-> selectedRegion.t1]

FollowOps == {"Init", "SelectionChange", "AudioStop", "CaptureStop"}

\* C17 as stated: whenever no gesture session is live and the play region is
\* inactive, the region's (start, end) is the selection's (t0, t1).
C17_InactiveFollows ==
  (mClicked = "None" /\ mMouseEventState = mesNone /\ ~playRegion.active)
    => SpanOf(playRegion) = SelectionSpan

\* C17: the inactive region is made equal to the selection by the
\* constructor and by every selection-change notification, audio-stop and
\* capture-stop event processed in mode None; the release of a left-button
\* gesture on an inactive region leaves the span it asked to play, or
\* (-1, -1) when it asked for none, and the region keeps it until the next
\* such event.
C17_FollowsOnNotification ==
  /\ (ev.op \in FollowOps /\ mMouseEventState = mesNone /\ ~playRegion.active)
       => SpanOf(playRegion) = SelectionSpan
  /\ (LeftReleased /\ ~playRegion.active /\ PlayRequested)
       => SpanOf(playRegion) = [start |-> requests[Len(requests)].start,
                                end |-> requests[Len(requests)].end]
  /\ (LeftReleased /\ ~playRegion.active /\ ev.cleared)
       => SpanOf(playRegion) = NoSpan

\* playback of a span away from the selection has stopped and the region is
\* the selection again
C17_Witness ==
  /\ ev.op = "AudioStop"
  /\ mClicked = "None" /\ mMouseEventState = mesNone
  /\ ~playRegion.active /\ ~pre.pr.active
  /\ ~mPlayRegionDragsSelection
  /\ pre.x = 10
  /\ selectedRegion = [t0 |-> 2, t1 |-> 4]
  /\ pre.sel = selectedRegion
  /\ SpanOf(playRegion) = SelectionSpan

\* C19: after a left-button session has ended, by mouse-up or by Cancel
\* (Escape, focus loss, start of a recording), all session state is reset:
\* the mode is None, isDragging is false and the click anchor is unset.
C19_SessionStateReset ==
  (ev.op \in {"Release", "Cancel", "CaptureStart"} /\ LeftGestureWas) =>
    /\ mMouseEventState = mesNone
    /\ mIsDragging = FALSE
    /\ mLeftDownClick = -1

\* the part of it that holds: a session ended by mouse-up leaves no state
C19_ReleaseResets ==
  LeftReleased =>
    /\ mMouseEventState = mesNone
    /\ mIsDragging = FALSE
    /\ mLeftDownClick = -1

\* ======================================== the two cells and the scrubber
\* The ruler with its scrub cell: the scrubber may have a mark when the
\* panel is created, and loses it when scrubbing ends.
InitScrub ==
  /\ tracks \in TrackSpans
  /\ zoom \in Zooms
  /\ hpos = 0
  /\ mLeftOffset = 1
  /\ usableWidth = Width
  /\ selectedRegion \in Selections
  /\ playRegion = MkRegion(selectedRegion.t0, selectedRegion.t1, FALSE, Unset, Unset)
  /\ mOldPlayRegion = UnsetRegion
  /\ mOldSelection = [t0 |-> 0, t1 |-> 0]
  /\ mMouseEventState = mesNone
  /\ mIsDragging = FALSE
  /\ mLeftDownClick = -1
  /\ mLeftDownClickUnsnapped = -1
  /\ mQuickPlayPos = 0
  /\ mQuickPlayPosUnsnapped = 0
  /\ mIsSnapped = FALSE
  /\ mIsRecording = FALSE
  /\ mPlayRegionDragsSelection = FALSE
  /\ mClicked = "None"
  /\ mX = 0
  /\ audioActive = FALSE
  /\ hasMark \in BOOLEAN
  /\ scrubTarget = FALSE
  /\ OverlaysFresh
  /\ PanelFresh(PanelWidth)
  /\ requests = << >>
  /\ ev = [ op |-> "Init", shift |-> FALSE, mes0 |-> mesNone,
            ordered |-> NoSpan, policy |-> NoSpan, cleared |-> FALSE ]
  /\ pre = [pr |-> playRegion, sel |-> selectedRegion, x |-> 0]
  /\ nGestures = 0
  /\ nMoves = 0
  /\ nExternal = 0

\* what a mouse-down in the scrub cell found: the button, the pixel of the
\* event, the scrubber's answers and whether it had a mark
ScrubEvent(leftIsDown, x, canScrub, showing) ==
  [ op |-> "ScrubClick", shift |-> FALSE, mes0 |-> mMouseEventState,
    ordered |-> NoSpan, policy |-> NoSpan, cleared |-> FALSE,
    left |-> leftIsDown, x |-> x, canScrub |-> canScrub,
    showing |-> showing, hadMark |-> hasMark ]

\* Mouse-down in the scrub cell: hit test, then ScrubbingHandle::Click.
ScrubMouseDown(x, leftIsDown, canScrub, showing) ==
  /\ mClicked = "None"
  /\ HandleReturned(St) => nGestures < MaxGestures
  /\ Apply(ScrubbingCell_MouseDown(St, x, FALSE, leftIsDown, canScrub, showing))
  /\ IF HandleReturned(St)
       THEN /\ ev' = ScrubEvent(leftIsDown, x, canScrub, showing)
            /\ pre' = [pr |-> playRegion, sel |-> selectedRegion, x |-> ClampX(x)]
            /\ nGestures' = nGestures + 1
            /\ nMoves' = 0
            /\ UNCHANGED nExternal
       ELSE /\ ev' = PlainEvent("NoHandle", FALSE)
            /\ UNCHANGED << pre, nGestures, nMoves, nExternal >>

\* Scrubbing ends elsewhere (the scrub poller, a transport button): the
\* scrubber has no mark any more.
ScrubEnds ==
  /\ hasMark
  /\ Apply(Scrubber_Ended(St))
  /\ ev' = PlainEvent("ScrubEnds", FALSE)
  /\ UNCHANGED << pre, nGestures, nMoves, nExternal >>

NextScrub ==
  \/ \E x \in MouseXs, sh \in BOOLEAN : MouseDownLeft(x, sh)
  \/ \E x \in MouseXs, sh \in BOOLEAN : MouseDownRight(x, sh)
  \/ \E x \in MouseXs, lf \in BOOLEAN, cs \in BOOLEAN, sw \in BOOLEAN :
        ScrubMouseDown(x, lf, cs, sw)
  \/ \E x \in MouseXs, sh \in BOOLEAN : MouseMove(x, sh)
  \/ \E sh \in BOOLEAN, ct \in BOOLEAN, cb \in BOOLEAN, un \in BOOLEAN :
        MouseUp(sh, ct, cb, un)
  \/ CancelGesture
  \/ PlaybackStops
  \/ CaptureStart
  \/ CaptureStop
  \/ ScrubEnds

SpecScrub == InitScrub /\ [][NextScrub]_vars

MarksIn(reqs) ==
  { i \in 1..Len(reqs) : reqs[i].req = "markScrubStart" }

C18_WitnessCancel ==
  /\ mIsRecording
  /\ ev.op = "CaptureStart"
  /\ ev.mes0 = mesSelectingPlayRegionRange
  /\ mClicked = "None"

\* C20: every MarkScrubStart call is made by a left mouse-down in the scrub
\* cell, outside a recording, when the scrubber can scrub, the scrub ruler
\* is shown and the scrubber has no mark; it is the only such call of the
\* event and passes the pixel x of the click.
C20_MarkOnlyAtPermittedClick ==
  (MarksIn(requests) # {}) =>
    /\ ev.op = "ScrubClick"
    /\ ev.left
    /\ ev.canScrub /\ ev.showing
    /\ ~ev.hadMark
    /\ MarksIn(requests) = {1}
    /\ requests[1].start = ev.x
    /\ hasMark

\* a left click in the scrub cell, left of the track area, marked the start
C20_Witness ==
  /\ ev.op = "ScrubClick"
  /\ ev.left /\ ev.canScrub /\ ev.showing /\ ~ev.hadMark
  /\ ev.x = 0
  /\ mX # ev.x
  /\ MarksIn(requests) = {1}
  /\ requests[1].start = 0
  /\ hasMark /\ scrubTarget

ScrubberCalls(reqs) ==
  { i \in 1..Len(reqs) : reqs[i].req \in {"markScrubStart", "scrubCancel", "stop"} }

\* the last event was a left mouse-down in the scrub cell while scrubbing
\* was not permitted
ScrubRefused ==
  /\ ev.op = "ScrubClick"
  /\ ev.left
  /\ ~(ev.canScrub /\ ev.showing)

\* C21: a left mouse-down in the scrub cell while scrubbing is not permitted
\* is reported as cancelled (no handle stays live) and calls neither
\* MarkScrubStart nor Scrubber::Cancel nor the transport's Stop; no drag,
\* release or cancel of that gesture is handled afterwards, and the start of
\* a recording right after it has nothing to cancel.
C21_RefusedScrub ==
  [][ /\ ScrubRefused' =>
            /\ mClicked' = "None" /\ ~scrubTarget'
            /\ ScrubberCalls(requests') = {}
            /\ hasMark' = hasMark
      /\ ScrubRefused =>
            /\ ev'.op \notin {"Drag", "Release", "ScrubRelease", "Cancel"}
            /\ ev'.op = "CaptureStart" =>
                 (ScrubberCalls(requests') = {} /\ hasMark' = hasMark) ]_vars

\* a click was refused because the scrub ruler is not shown
C21_Witness ==
  /\ ScrubRefused /\ ev.canScrub /\ ~ev.showing
  /\ mClicked = "None" /\ requests = << >>

\* C22: cancelling a scrub gesture that was started with the left button
\* calls Scrubber::Cancel and then the transport's Stop, in that order and
\* nothing else; cancelling one started with the right button, or cancelling
\* when no handle was clicked, issues neither call.
C22_ScrubCancel ==
  [][ (ev'.op \in {"Cancel", "CaptureStart"}) =>
        /\ (scrubTarget /\ mClicked = "Left") =>
              /\ Len(requests') = 2
              /\ requests'[1].req = "scrubCancel"
              /\ requests'[2].req = "stop"
              /\ ~hasMark'
        /\ ((scrubTarget /\ mClicked = "Right") \/ mClicked = "None") =>
              /\ requests' = << >>
              /\ hasMark' = hasMark ]_vars

\* a left scrub gesture that had marked the start was cancelled
C22_Witness ==
  /\ ev.op = "Cancel"
  /\ Len(requests) = 2
  /\ requests[1].req = "scrubCancel"
  /\ requests[2].req = "stop"
  /\ ~hasMark /\ mClicked = "None" /\ ~scrubTarget

\* a right-button scrub gesture was cancelled on a marked scrubber
C22_WitnessRight ==
  /\ ev.op = "Cancel"
  /\ hasMark /\ requests = << >>
  /\ nGestures = 1 /\ mOldPlayRegion = UnsetRegion

\* ================================================ the indicator overlays
\* The cell the pointer was last in (CellularPanel::LastCell) and the state
\* of the scrubber are read by the overlays at each update.
Cells == {"None", "QP", "Scrub"}
ScrubModes == {"off", "mouse", "keyboard"}

\* scrubber.IsScrubbing()
IsScrubbing(scrubMode) == scrubMode # "off"

\* IsScrubbing() && !IsSpeedPlaying() && !IsKeyboardScrubbing()
MouseScrubbing(scrubMode) == scrubMode = "mouse"

\* "Hide during transport, or if mouse is not in the ruler, unless scrubbing"
Hidden_NoLatestEnd(lastCell, scrubMode) ==
  (lastCell = "None" \/ audioActive) /\ ~MouseScrubbing(scrubMode)

Hidden(lastCell, scrubMode) ==
  \/ (lastCell = "None" \/ audioActive) /\ ~MouseScrubbing(scrubMode)
  \/ mQuickPlayPos >= Max(tracks.t1, selectedRegion.t1)

\* ScrubbingRulerOverlay::Update
\* Update whose seek flag does not ask for the scrub flag
RulerOverlay_Update_SeekAlone(o, lastCell, scrubMode, target, seeks) ==
  IF Hidden(lastCell, scrubMode)
    THEN [o EXCEPT !.mNewQPIndicatorPos = -1]
    ELSE LET newScrub == ~target /\ (lastCell = "Scrub" \/ hasMark)
         IN [o EXCEPT !.mNewQPIndicatorPos = Time2Pos(mQuickPlayPos),
                      !.mNewScrub = newScrub,
                      !.mNewSeek = seeks]

RulerOverlay_Update(o, lastCell, scrubMode, target, seeks) ==
  IF Hidden(lastCell, scrubMode)
    THEN [o EXCEPT !.mNewQPIndicatorPos = -1]
    ELSE LET newScrub == ~target /\ (lastCell = "Scrub" \/ hasMark)
         IN [o EXCEPT !.mNewQPIndicatorPos = Time2Pos(mQuickPlayPos),
                      !.mNewScrub = newScrub,
                      !.mNewSeek = newScrub /\ seeks]

\* the flag returned by ScrubbingRulerOverlay::DoGetRectangle
RulerOverlay_Outdated_Always(o) == TRUE

RulerOverlay_Outdated(o) ==
  IF o.mOldQPIndicatorPos >= 0
    THEN \/ o.mOldQPIndicatorPos # o.mNewQPIndicatorPos
         \/ o.mOldScrub # o.mNewScrub
         \/ o.mOldSeek # o.mNewSeek
    ELSE o.mNewQPIndicatorPos >= 0

\* ScrubbingRulerOverlay::Draw
RulerOverlay_Draw(o) ==
  [o EXCEPT !.mOldQPIndicatorPos = o.mNewQPIndicatorPos,
            !.mOldScrub = o.mNewScrub,
            !.mOldSeek = o.mNewSeek]

\* TrackPanelGuidelineOverlay::Update
Guideline_Update(g, lastCell, scrubMode) ==
  [g EXCEPT !.mNewPreviewingScrub = (lastCell = "Scrub") /\ ~IsScrubbing(scrubMode),
            !.mNewIndicatorSnapped = mIsSnapped]

\* the flag returned by TrackPanelGuidelineOverlay::DoGetRectangle
Guideline_Outdated(g, partner) ==
  \/ g.mOldQPIndicatorPos # partner.mNewQPIndicatorPos
  \/ g.mOldIndicatorSnapped # g.mNewIndicatorSnapped
  \/ g.mOldPreviewingScrub # g.mNewPreviewingScrub

\* TrackPanelGuidelineOverlay::Draw
Guideline_Draw(g, partner) ==
  [g EXCEPT !.mOldQPIndicatorPos = partner.mNewQPIndicatorPos,
            !.mOldIndicatorSnapped = g.mNewIndicatorSnapped,
            !.mOldPreviewingScrub = g.mNewPreviewingScrub]

\* times at the left edge of the view
ScrollPositions == {0, 6}
\* pointer pixels: near the selection and beyond the end of the tracks
OverlayXs == {2, 15}

InitOverlay ==
  /\ tracks \in TrackSpans
  /\ zoom \in Zooms
  /\ hpos \in ScrollPositions
  /\ mLeftOffset = 1
  /\ usableWidth = Width
  /\ selectedRegion = [t0 |-> 2, t1 |-> 4]
  /\ playRegion = MkRegion(selectedRegion.t0, selectedRegion.t1, FALSE, Unset, Unset)
  /\ mOldPlayRegion = UnsetRegion
  /\ mOldSelection = [t0 |-> 0, t1 |-> 0]
  /\ mMouseEventState = mesNone
  /\ mIsDragging = FALSE
  /\ mLeftDownClick = -1
  /\ mLeftDownClickUnsnapped = -1
  /\ mQuickPlayPos = 0
  /\ mQuickPlayPosUnsnapped = 0
  /\ mIsSnapped = FALSE
  /\ mIsRecording = FALSE
  /\ mPlayRegionDragsSelection = FALSE
  /\ mClicked = "None"
  /\ mX = 0
  /\ audioActive = FALSE
  /\ hasMark = FALSE
  /\ scrubTarget = FALSE
  /\ OverlaysFresh
  /\ PanelFresh(PanelWidth)
  /\ requests = << >>
  /\ ev = [ op |-> "Init", outdated |-> FALSE, offRuler |-> TRUE,
            scrubbing |-> FALSE ]
  /\ pre = [pr |-> playRegion, sel |-> selectedRegion, x |-> 0]
  /\ nGestures = 0
  /\ nMoves = 0
  /\ nExternal = 0

\* what the last event was; for a query its flag, whether the pointer was
\* off the ruler and whether a scrub with the mouse was in progress
OverlayEvent(op, outdated, lastCell, scrubMode) ==
  [ op |-> op, outdated |-> outdated, offRuler |-> (lastCell = "None"),
    scrubbing |-> MouseScrubbing(scrubMode) ]

Frame == << playRegion, selectedRegion, mOldPlayRegion, mOldSelection,
            mMouseEventState, mIsDragging, mLeftDownClick,
            mLeftDownClickUnsnapped, mQuickPlayPos, mQuickPlayPosUnsnapped,
            mIsSnapped, mIsRecording, mPlayRegionDragsSelection, mClicked, mX,
            tracks, zoom, hpos, mLeftOffset, usableWidth, audioActive,
            hasMark, scrubTarget, requests, pre, nGestures, nMoves, nExternal,
            PaintVars >>

\* ScrubbingRulerOverlay::DoGetRectangle: Update, then the outdated flag
RulerGetRectangle(lastCell, scrubMode, target, seeks) ==
  /\ rulerOverlay' = RulerOverlay_Update(rulerOverlay, lastCell, scrubMode,
                                         target, seeks)
  /\ ev' = OverlayEvent("RulerGetRectangle", RulerOverlay_Outdated(rulerOverlay'),
                        lastCell, scrubMode)
  /\ UNCHANGED << Frame, guideline >>

RulerDraw ==
  /\ rulerOverlay' = RulerOverlay_Draw(rulerOverlay)
  /\ ev' = OverlayEvent("RulerDraw", FALSE, "None", "off")
  /\ UNCHANGED << Frame, guideline >>

\* TrackPanelGuidelineOverlay::DoGetRectangle
GuidelineGetRectangle(lastCell, scrubMode) ==
  /\ guideline' = Guideline_Update(guideline, lastCell, scrubMode)
  /\ ev' = OverlayEvent("GuidelineGetRectangle",
                        Guideline_Outdated(guideline', rulerOverlay),
                        "None", "off")
  /\ UNCHANGED << Frame, rulerOverlay >>

GuidelineDraw ==
  /\ guideline' = Guideline_Draw(guideline, rulerOverlay)
  /\ ev' = OverlayEvent("GuidelineDraw", FALSE, "None", "off")
  /\ UNCHANGED << Frame, rulerOverlay >>

\* The pointer moves over a cell of the ruler: the cell's hit test.
PointerOver(cell, x) ==
  /\ Apply(IF cell = "QP" THEN QPCell_HitTest(St, x, FALSE)
                          ELSE ScrubbingCell_HitTest(St, x, FALSE))
  /\ ev' = OverlayEvent("Pointer", FALSE, "None", "off")
  /\ UNCHANGED << pre, nGestures, nMoves, nExternal >>

\* The transport starts or stops between two idle ticks.
TransportChanges ==
  /\ Apply([St EXCEPT !.audioActive = ~audioActive])
  /\ ev' = OverlayEvent("Transport", FALSE, "None", "off")
  /\ UNCHANGED << pre, nGestures, nMoves, nExternal >>

NextOverlay ==
  \/ \E c \in Cells, m \in ScrubModes, tg \in BOOLEAN, sk \in BOOLEAN :
        RulerGetRectangle(c, m, tg, sk)
  \/ RulerDraw
  \/ \E c \in Cells, m \in ScrubModes : GuidelineGetRectangle(c, m)
  \/ GuidelineDraw
  \/ \E c \in {"QP", "Scrub"}, x \in OverlayXs : PointerOver(c, x)
  \/ TransportChanges

SpecOverlay == InitOverlay /\ [][NextOverlay]_vars

RulerDiffers ==
  \/ rulerOverlay.mOldQPIndicatorPos # rulerOverlay.mNewQPIndicatorPos
  \/ rulerOverlay.mOldScrub # rulerOverlay.mNewScrub
  \/ rulerOverlay.mOldSeek # rulerOverlay.mNewSeek

GuidelineDiffers ==
  \/ guideline.mOldQPIndicatorPos # rulerOverlay.mNewQPIndicatorPos
  \/ guideline.mOldIndicatorSnapped # guideline.mNewIndicatorSnapped
  \/ guideline.mOldPreviewingScrub # guideline.mNewPreviewingScrub

Committed ==
  /\ (ev.op = "RulerDraw") => ~RulerDiffers
  /\ (ev.op = "GuidelineDraw") => ~GuidelineDiffers

\* C23 as stated: for both overlays the flag of the query is true exactly
\* when the new state differs from the last drawn state in a tracked field,
\* and Draw makes the last drawn state equal to the new state.
C23_DirtyIffDiffers ==
  /\ (ev.op = "RulerGetRectangle") => (ev.outdated <=> RulerDiffers)
  /\ (ev.op = "GuidelineGetRectangle") => (ev.outdated <=> GuidelineDiffers)
  /\ Committed

\* C23: the guideline's flag is true exactly when a tracked field differs;
\* the ruler overlay's flag is true exactly when a tracked field differs and
\* the last drawn position is visible (>= 0), or the last drawn position is
\* hidden (< 0) and the new one is visible; so a redraw is asked only when
\* the states differ, and two hidden states never ask for one.  Draw makes
\* the last drawn state equal to the new state in every tracked field.
C23_DirtyCheck ==
  /\ (ev.op = "RulerGetRectangle") =>
       /\ ev.outdated <=>
            IF rulerOverlay.mOldQPIndicatorPos >= 0
              THEN RulerDiffers
              ELSE rulerOverlay.mNewQPIndicatorPos >= 0
       /\ ev.outdated => RulerDiffers
  /\ (ev.op = "GuidelineGetRectangle") => (ev.outdated <=> GuidelineDiffers)
  /\ Committed

\* the shape flag changed while the indicator stayed at a visible pixel
C23_Witness ==
  /\ ev.op = "RulerGetRectangle"
  /\ ev.outdated
  /\ rulerOverlay.mOldQPIndicatorPos >= 0
  /\ rulerOverlay.mOldQPIndicatorPos = rulerOverlay.mNewQPIndicatorPos
  /\ rulerOverlay.mOldScrub # rulerOverlay.mNewScrub

\* both states hidden, with different shape flags: no redraw is asked
C23_WitnessHidden ==
  /\ ev.op = "RulerGetRectangle"
  /\ ~ev.outdated
  /\ rulerOverlay.mOldQPIndicatorPos < 0
  /\ rulerOverlay.mNewQPIndicatorPos < 0
  /\ RulerDiffers

IndicatorAt == rulerOverlay.mNewQPIndicatorPos

MustHide ==
  /\ ~ev.scrubbing
  /\ (audioActive \/ ev.offRuler)

\* C24 as stated: at every update the new position is -1 when no scrub is
\* in progress and the transport is active or the pointer is off the ruler,
\* and in every other case it is the pixel of the quick-play time.
C24_VisibleOtherwise ==
  (ev.op = "RulerGetRectangle") =>
     IF MustHide THEN IndicatorAt = -1
                 ELSE IndicatorAt = Time2Pos(mQuickPlayPos)

\* C24: at every update the new position is -1 when no scrub is in progress
\* and the transport is active or the pointer is off the ruler, and also
\* when the quick-play time is not before the later of the track end and the
\* selection end; in every other case it is the pixel of the quick-play time.
C24_IndicatorPosition ==
  (ev.op = "RulerGetRectangle") =>
     IF MustHide \/ mQuickPlayPos >= Max(tracks.t1, selectedRegion.t1)
       THEN IndicatorAt = -1
       ELSE IndicatorAt = Time2Pos(mQuickPlayPos)

\* the transport is running and the indicator shows because of a scrub
C24_Witness ==
  /\ ev.op = "RulerGetRectangle"
  /\ audioActive
  /\ ev.scrubbing
  /\ IndicatorAt = Time2Pos(mQuickPlayPos)
  /\ IndicatorAt >= 0

\* the pointer is over the ruler at the end of the tracks: hidden
C24_WitnessEnd ==
  /\ ev.op = "RulerGetRectangle"
  /\ ~MustHide
  /\ mQuickPlayPos >= tracks.t1
  /\ IndicatorAt = -1

\* ======================================================================
\* The conversions of the time axis as functions of their inputs: the
\* clamping of the pointer in UpdateQuickPlayPos, Pos2Time / Time2Pos and
\* HandleSnapping, over a set of view geometries.
\* ======================================================================
\* zooms of the view, as ticks per pixel
AxisZooms == {1, 2, 5}
\* left offsets of the ruler
AxisOffsets == {0, 3}
\* usable widths of the track area; a window narrower than the offsets has 0
AxisWidths == {0, 1, 8}
\* scroll positions of the view
AxisScrolls == {0, 6}
\* pixels at which the pointer arrives, on both sides of the usable area
AxisXs == -2 .. 12
\* selections, whose boundaries are the snap points
AxisSelections == { [t0 |-> 2, t1 |-> 4], [t0 |-> 6, t1 |-> 20] }
\* quick-play times held when the conversions are applied
AxisTimes == {0, 1, 3, 5, 8, 11, 13, 20, 30}

InitAxis ==
  /\ tracks \in TrackSpans
  /\ zoom \in AxisZooms
  /\ hpos \in AxisScrolls
  /\ mLeftOffset \in AxisOffsets
  /\ usableWidth \in AxisWidths
  /\ selectedRegion \in AxisSelections
  /\ playRegion = MkRegion(selectedRegion.t0, selectedRegion.t1, FALSE, Unset, Unset)
  /\ mOldPlayRegion = UnsetRegion
  /\ mOldSelection = [t0 |-> 0, t1 |-> 0]
  /\ mMouseEventState = mesNone
  /\ mIsDragging = FALSE
  /\ mLeftDownClick = -1
  /\ mLeftDownClickUnsnapped = -1
  /\ mQuickPlayPos \in AxisTimes
  /\ mQuickPlayPosUnsnapped = mQuickPlayPos
  /\ mIsSnapped = FALSE
  /\ mIsRecording = FALSE
  /\ mPlayRegionDragsSelection = FALSE
  /\ mClicked = "None"
  /\ mX = mLeftOffset
  /\ audioActive = FALSE
  /\ hasMark = FALSE
  /\ scrubTarget = FALSE
  /\ OverlaysFresh
  /\ PanelFresh(PanelWidth)
  /\ requests = << >>
  /\ ev = [ op |-> "Init", cell |-> "None", x |-> 0, shiftDown |-> FALSE,
            back |-> 0, again |-> FALSE ]
  /\ pre = [pr |-> playRegion, sel |-> selectedRegion, x |-> 0]
  /\ nGestures = 0
  /\ nMoves = 0
  /\ nExternal = 0

\* the last event: its kind, the cell and pixel of the pointer, the shift
\* key, for a round trip the pixel that came back, and for a snap whether
\* the event before it was a snap too
AxisEvent(op, cell, x, shiftDown, back) ==
  [ op |-> op, cell |-> cell, x |-> x, shiftDown |-> shiftDown, back |-> back,
    again |-> (op = "Snap" /\ ev.op = "Snap") ]

\* the pixels of the usable track area
InViewBounds(x) ==
  x >= GetLeftOffset /\ x <= GetLeftOffset + usableWidth - 1

\* The pointer arrives at pixel x of a cell: the cell's hit test, which
\* calls UpdateQuickPlayPos(x, shiftDown).
AxisHitTest(cell, x, shiftDown) ==
  /\ Apply(IF cell = "QP" THEN QPCell_HitTest(St, x, shiftDown)
                          ELSE ScrubbingCell_HitTest(St, x, shiftDown))
  /\ ev' = AxisEvent("HitTest", cell, x, shiftDown, 0)
  /\ UNCHANGED << pre, nGestures, nMoves, nExternal >>

\* HandleSnapping applied to the quick-play time held
Snap ==
  /\ Apply(HandleSnapping(St))
  /\ ev' = AxisEvent("Snap", "None", 0, FALSE, 0)
  /\ UNCHANGED << pre, nGestures, nMoves, nExternal >>

\* Time2Pos(Pos2Time(x)) for a pixel of the usable area
RoundTrip(x) ==
  /\ InViewBounds(x)
  /\ Apply(St)
  /\ ev' = AxisEvent("RoundTrip", "None", x, FALSE, Time2Pos(Pos2Time(x)))
  /\ UNCHANGED << pre, nGestures, nMoves, nExternal >>

NextAxis ==
  \/ \E c \in {"QP", "Scrub"}, x \in AxisXs, sh \in BOOLEAN : AxisHitTest(c, x, sh)
  \/ Snap
  \/ \E x \in AxisXs : RoundTrip(x)

SpecAxis == InitAxis /\ [][NextAxis]_vars

\* C25: for every pixel passed to UpdateQuickPlayPos and every geometry,
\* usable width zero included, the pixel used lies in
\* [leftOffset, leftOffset + usableWidth - 1] and is never left of
\* leftOffset; in the quick-play cell without shift the quick-play time is
\* at most the track end time.
C25_PointerClamped ==
  ev.op = "HitTest" =>
    /\ mX >= GetLeftOffset
    /\ usableWidth > 0 => mX <= GetLeftOffset + usableWidth - 1
    /\ (ev.cell = "QP" /\ ~ev.shiftDown) => mQuickPlayPos <= tracks.t1

\* C25, the part that the code keeps: with a usable width of at least one
\* pixel the pixel used is inside the usable area, and in every geometry the
\* quick-play time of the quick-play cell without shift is at most the track
\* end time.
C25_ClampedWhenWide ==
  ev.op = "HitTest" =>
    /\ usableWidth > 0 => InViewBounds(mX)
    /\ (ev.cell = "QP" /\ ~ev.shiftDown) => mQuickPlayPos <= tracks.t1

C25_ZeroWidth ==
  /\ ev.op = "HitTest"
  /\ usableWidth = 0
  /\ mX = GetLeftOffset - 1
  /\ mQuickPlayPosUnsnapped < hpos

C28_SnapIdempotent ==
  [][ (ev'.op = "Snap" /\ ev'.again) =>
        (mQuickPlayPos' = mQuickPlayPos /\ mIsSnapped' = mIsSnapped) ]_vars

\* a snap that moved the time to a reference point, in a tie between the two
\* boundaries resolved to the first
C28_Witness ==
  /\ ev.op = "Snap"
  /\ ev.again
  /\ mIsSnapped
  /\ mQuickPlayPos = selectedRegion.t0
  /\ mQuickPlayPosUnsnapped # mQuickPlayPos
  /\ Abs(mQuickPlayPosUnsnapped - selectedRegion.t0)
       = Abs(mQuickPlayPosUnsnapped - selectedRegion.t1)

\* a snap with no reference point within the tolerance
C28_WitnessFar ==
  /\ ev.op = "Snap"
  /\ ev.again
  /\ ~mIsSnapped
  /\ mQuickPlayPos = 30


\* ======================================================================
\* The status message of the scrub handle.
\* ======================================================================
StartScrubbingMessage == "Click & move to Scrub. Click & drag to Seek."

ContinueScrubbingMessage(isScrubbing, clicked) ==
  IF clicked
    THEN IF isScrubbing
           THEN "Drag to Seek. Release to stop seeking."
           ELSE "Drag to Seek. Release and move to Scrub."
    ELSE "Move to Scrub. Drag to Seek."

\* ScrubbingMessage that does not ask for the mark
ScrubbingMessage_IgnoresMark(mark, isScrubbing, clicked) ==
  ContinueScrubbingMessage(isScrubbing, clicked)

ScrubbingMessage(mark, isScrubbing, clicked) ==
  IF mark
    THEN ContinueScrubbingMessage(isScrubbing, clicked)
    ELSE StartScrubbingMessage

\* ScrubbingHandle::Preview: the panel after the call, the message and the
\* tooltip; mTimelineToolTip is the preference "/QuickPlay/ToolTips"
ScrubbingHandle_Preview(s, isScrubbing, mTimelineToolTip) ==
  LET message == ScrubbingMessage(s.hasMark, isScrubbing, s.mClicked = "Left")
  IN [ panel |-> s, message |-> message,
       tooltip |-> IF mTimelineToolTip THEN message ELSE "" ]

\* The pointer is over the scrub cell, or a gesture of the scrub handle is
\* going on: CellularPanel asks the handle for its preview.
Preview(scrubMode, mTimelineToolTip) ==
  /\ ~mIsRecording
  /\ mClicked # "None" => scrubTarget
  /\ LET r == ScrubbingHandle_Preview(St, IsScrubbing(scrubMode), mTimelineToolTip)
     IN /\ Apply(r.panel)
        /\ ev' = [ op |-> "Preview", message |-> r.message,
                   tooltip |-> r.tooltip, mark |-> hasMark,
                   isScrubbing |-> IsScrubbing(scrubMode),
                   clicked |-> (mClicked = "Left") ]
  /\ UNCHANGED << pre, nGestures, nMoves, nExternal >>

NextMessage ==
  \/ \E x \in MouseXs, lf \in BOOLEAN, cs \in BOOLEAN, sw \in BOOLEAN :
        ScrubMouseDown(x, lf, cs, sw)
  \/ \E x \in MouseXs, sh \in BOOLEAN : MouseMove(x, sh)
  \/ \E sh \in BOOLEAN, ct \in BOOLEAN, cb \in BOOLEAN, un \in BOOLEAN :
        MouseUp(sh, ct, cb, un)
  \/ CancelGesture
  \/ ScrubEnds
  \/ \E m \in ScrubModes, tt \in BOOLEAN : Preview(m, tt)

SpecMessage == InitScrub /\ [][NextMessage]_vars

\* the message the claim gives for a triple
MessageOf(mark, isScrubbing, clicked) ==
  CASE ~mark -> StartScrubbingMessage
    [] mark /\ clicked /\ isScrubbing -> "Drag to Seek. Release to stop seeking."
    [] mark /\ clicked /\ ~isScrubbing -> "Drag to Seek. Release and move to Scrub."
    [] mark /\ ~clicked -> "Move to Scrub. Drag to Seek."

\* the variables of the panel, the view and the overlays
PanelState == << playRegion, selectedRegion, mOldPlayRegion, mOldSelection,
                 mMouseEventState, mIsDragging, mLeftDownClick,
                 mLeftDownClickUnsnapped, mQuickPlayPos, mQuickPlayPosUnsnapped,
                 mIsSnapped, mIsRecording, mPlayRegionDragsSelection, mClicked,
                 mX, tracks, zoom, hpos, mLeftOffset, usableWidth, audioActive,
                 hasMark, scrubTarget, rulerOverlay, guideline >>

\* C26: the text of ScrubbingMessage depends only on (hasMark, isScrubbing,
\* clicked): it is the start message when there is no mark, "release to stop
\* seeking" with a mark, clicked and scrubbing, "release and move to scrub"
\* with a mark, clicked and not scrubbing, "move to scrub" with a mark and
\* not clicked; two calls in a row with equal triples give equal texts; and
\* computing it changes no state and asks nothing of the scrubber or the
\* transport.
C26_MessagePure ==
  [][ ev'.op = "Preview" =>
        /\ ev'.message = MessageOf(hasMark, ev'.isScrubbing, mClicked = "Left")
        /\ ev'.mark = hasMark /\ ev'.clicked = (mClicked = "Left")
        /\ (ev.op = "Preview" /\ ev.mark = ev'.mark
              /\ ev.isScrubbing = ev'.isScrubbing /\ ev.clicked = ev'.clicked)
             => ev'.message = ev.message
        /\ PanelState' = PanelState
        /\ requests' = << >> ]_vars

\* the message asked for during a left-button gesture with a mark, while
\* the scrub runs
C26_Witness ==
  /\ ev.op = "Preview"
  /\ ev.mark /\ ev.clicked /\ ev.isScrubbing
  /\ mClicked = "Left"
  /\ ev.message = "Drag to Seek. Release to stop seeking."

\* the start message, asked for while a scrub of another kind runs and the
\* scrubber has no mark, with the right button down
C26_WitnessStart ==
  /\ ev.op = "Preview"
  /\ ~ev.mark /\ ev.isScrubbing
  /\ mClicked = "Right"
  /\ ev.message = StartScrubbingMessage


\* ======================================================================
\* The mouse-down of the quick-play handle over regions of every kind:
\* wide, empty (a point), cleared, active or following the selection.
\* ======================================================================
\* zooms of the view, as ticks per pixel
ClickZooms == {1, 2}
\* pixels of the mouse events
ClickXs == {0, 3, 5, 7, 9, 12, 15}
\* selections at construction: a range, a cursor (empty), a range far away
ClickSelections == { [t0 |-> 2, t1 |-> 4], [t0 |-> 8, t1 |-> 8],
                     [t0 |-> 30, t1 |-> 40] }

\* scroll positions of the view; with scrolling beyond zero the left edge of
\* the view shows negative times
ClickScrolls == {-6, 0}

InitClick ==
  /\ tracks \in TrackSpans
  /\ zoom \in ClickZooms
  /\ hpos \in ClickScrolls
  /\ mLeftOffset = 1
  /\ usableWidth \in {0, Width}
  /\ selectedRegion \in ClickSelections
  /\ playRegion \in InitRegions(selectedRegion)
  /\ mOldPlayRegion = UnsetRegion
  /\ mOldSelection = [t0 |-> 0, t1 |-> 0]
  /\ mMouseEventState = mesNone
  \* TRUE: left behind by a cancelled drag (QPHandle::Cancel does not reset it)
  /\ mIsDragging \in BOOLEAN
  /\ mLeftDownClick = -1
  /\ mLeftDownClickUnsnapped = -1
  /\ mQuickPlayPos = 0
  /\ mQuickPlayPosUnsnapped = 0
  /\ mIsSnapped = FALSE
  /\ mIsRecording = FALSE
  /\ mPlayRegionDragsSelection = FALSE
  /\ mClicked = "None"
  /\ mX = 0
  /\ audioActive = FALSE
  /\ hasMark = FALSE
  /\ scrubTarget = FALSE
  /\ OverlaysFresh
  /\ PanelFresh(PanelWidth)
  /\ requests = << >>
  /\ ev = [ op |-> "Init", shift |-> FALSE, mes0 |-> mesNone,
            ordered |-> NoSpan, policy |-> NoSpan, cleared |-> FALSE ]
  /\ pre = [pr |-> playRegion, sel |-> selectedRegion, x |-> 0]
  /\ nGestures = 0
  /\ nMoves = 0
  /\ nExternal = 0

NextClick ==
  \/ \E x \in ClickXs, sh \in BOOLEAN : MouseDownLeft(x, sh)
  \/ \E x \in ClickXs, sh \in BOOLEAN : MouseDownRight(x, sh)
  \/ \E x \in ClickXs, sh \in BOOLEAN : MouseMove(x, sh)
  \/ \E sh \in BOOLEAN, ct \in BOOLEAN, cb \in BOOLEAN, un \in BOOLEAN :
        MouseUp(sh, ct, cb, un)
  \/ CancelGesture
  \/ PlaybackStops

SpecClick == InitClick /\ [][NextClick]_vars

\* the mouse-down was within the tolerance of an edge of the region it found
NearEdge == IsWithinMarker(pre.x, pre.pr.start) \/ IsWithinMarker(pre.x, pre.pr.end)

\* distance in pixels between two times
PixelDistance(t, u) == Abs(Time2Pos(t) - Time2Pos(u))

\* C29: a left mouse-down within tolerance of the start or the end of a
\* non-empty current region sets the mode to DraggingStart if the clicked
\* time's pixel is strictly nearer to the start's pixel than to the end's
\* pixel and to DraggingEnd otherwise, equal distance included; never to
\* ClickPending.
C29_EdgeGrab ==
  (ev.op = "Click" /\ NearEdge /\ ~PR_Empty(pre.pr)) =>
    /\ mMouseEventState =
         IF PixelDistance(mLeftDownClick, pre.pr.start)
              < PixelDistance(mLeftDownClick, pre.pr.end)
           THEN mesDraggingPlayRegionStart
           ELSE mesDraggingPlayRegionEnd
    /\ mMouseEventState # mesSelectingPlayRegionClick

\* equal pixel distance to both edges: the end is grabbed
C29_Witness ==
  /\ ev.op = "Click" /\ NearEdge /\ ~PR_Empty(pre.pr)
  /\ PixelDistance(mLeftDownClick, pre.pr.start)
       = PixelDistance(mLeftDownClick, pre.pr.end)
  /\ mMouseEventState = mesDraggingPlayRegionEnd

\* strictly nearer to the start: the start is grabbed
C29_WitnessStart ==
  /\ ev.op = "Click" /\ NearEdge /\ ~PR_Empty(pre.pr)
  /\ mLeftDownClick # pre.pr.start
  /\ mMouseEventState = mesDraggingPlayRegionStart

\* the quick-play time of a mouse-down at the clamped pixel pre.x
ClickTimeUnsnapped == Pos2Time(pre.x)

ClickTime ==
  LET snapped == SnapResult(ClickTimeUnsnapped, << pre.sel.t0, pre.sel.t1 >>).outTime
  IN IF ev.shift THEN snapped ELSE Min(tracks.t1, snapped)

\* the mouse-down that the claim sends to ClickPending
PendingCase == (NearEdge /\ PR_Empty(pre.pr)) \/ ~NearEdge

\* C30: a left mouse-down within tolerance of a marker of an empty region,
\* or not within tolerance of either edge, puts the session in ClickPending
\* with the anchor equal to the snapped click time and the unsnapped anchor
\* equal to the unsnapped click time; an empty region is never resized by
\* grabbing its marker.
C30_ClickPending ==
  /\ (ev.op = "Click" /\ PendingCase) =>
       /\ mMouseEventState = mesSelectingPlayRegionClick
       /\ mLeftDownClick = ClickTime
       /\ mLeftDownClickUnsnapped = ClickTimeUnsnapped
  /\ (mClicked = "Left" /\ PR_Empty(pre.pr)) =>
       mMouseEventState \notin {mesDraggingPlayRegionStart, mesDraggingPlayRegionEnd}

\* C30 for mouse-downs whose unsnapped click time is not negative
C30_ClickPendingOnAxis ==
  /\ (ev.op = "Click" /\ PendingCase /\ ClickTimeUnsnapped >= 0) =>
       /\ mMouseEventState = mesSelectingPlayRegionClick
       /\ mLeftDownClick = ClickTime
       /\ mLeftDownClickUnsnapped = ClickTimeUnsnapped
  /\ (mClicked = "Left" /\ PR_Empty(pre.pr)) =>
       mMouseEventState \notin {mesDraggingPlayRegionStart, mesDraggingPlayRegionEnd}

\* a mouse-down on the marker of an empty region
C30_WitnessEmpty ==
  /\ ev.op = "Click" /\ NearEdge /\ PR_Empty(pre.pr)
  /\ mMouseEventState = mesSelectingPlayRegionClick
  /\ mLeftDownClick = pre.pr.start

\* a mouse-down left of the view with a usable width of zero
C30_NegativeClick ==
  /\ ev.op = "Click" /\ PendingCase
  /\ ClickTimeUnsnapped < 0
  /\ mMouseEventState = mesSelectingPlayRegionRange


\* ======================================================================
\* The moves of a gesture, mode by mode.
\* ======================================================================
\* the step is a move handled by HandleQPDrag in ClickPending: the move that
\* ends a left mouse-down which HandleQPClick left in ClickPending, or a
\* mouse-move of a left gesture in ClickPending
PendingMove ==
  \/ ev'.op = "Click" /\ PendingCase'
  \/ ev'.op = "Drag" /\ mClicked = "Left"
       /\ mMouseEventState = mesSelectingPlayRegionClick

\* the pixel x is in the tolerance window of the pixel of time t
InWindow(x, t) ==
  x >= Time2Pos(t) - SELECT_TOLERANCE_PIXEL /\ x < Time2Pos(t) + SELECT_TOLERANCE_PIXEL

\* what the claim asks of a move in ClickPending
PendingMoveRule ==
  IF InWindow(mX', mLeftDownClickUnsnapped') \/ mLeftDownClick' = -1
    THEN /\ mMouseEventState' = mesSelectingPlayRegionClick
         /\ SpanOf(playRegion') = [start |-> mLeftDownClick', end |-> mLeftDownClick']
    ELSE mMouseEventState' = mesSelectingPlayRegionRange

\* C31: for every move handled in ClickPending, the one of the mouse-down
\* included, a pointer within tolerance of the anchor (or an undefined
\* anchor) keeps the mode and the region collapsed at the anchor, and the
\* mode becomes SelectingRange exactly at the first move outside the
\* tolerance, for every anchor time, negative ones included.
C31_PendingMoves ==
  [][ PendingMove => PendingMoveRule ]_vars

\* C31 for anchors on the time axis (unsnapped click time not negative)
C31_PendingMovesOnAxis ==
  [][ (PendingMove /\ mLeftDownClickUnsnapped' >= 0) => PendingMoveRule ]_vars

\* a mouse-move at the pixel of a negative anchor has left ClickPending
C31_NegativeAnchor ==
  /\ ev.op \in {"Click", "Drag"}
  /\ mLeftDownClickUnsnapped < 0
  /\ mLeftDownClick # -1
  /\ InWindow(mX, mLeftDownClickUnsnapped)
  /\ mMouseEventState = mesSelectingPlayRegionRange

\* a mouse-move of a left gesture handled in the given mode
MoveIn(mode) ==
  ev'.op = "Drag" /\ mClicked = "Left" /\ mMouseEventState = mode

\* the move was within tolerance of the edge opposite to the grabbed one, and
\* the region is collapsed on it
CollapseRule ==
  /\ (MoveIn(mesDraggingPlayRegionStart) /\ IsWithinMarker(mX', pre.pr.end))
       => /\ playRegion'.start = pre.pr.end
          /\ playRegion'.start = playRegion'.end
  /\ (MoveIn(mesDraggingPlayRegionEnd) /\ IsWithinMarker(mX', pre.pr.start))
       => /\ playRegion'.end = pre.pr.start
          /\ playRegion'.start = playRegion'.end

\* C32: after every mouse-move in DraggingStart (DraggingEnd) whose pointer
\* is within tolerance of the fixed opposite edge, the dragged edge equals
\* that edge, the region is empty and not inverted, for regions inactive and
\* for regions active at mouse-down.
C32_Collapse ==
  [][ CollapseRule ]_vars

\* C32 for regions that were inactive at mouse-down
C32_CollapseInactive ==
  [][ ~pre.pr.active => CollapseRule ]_vars

\* the start of a region that was active at mouse-down has been dragged onto
\* the old end, and the live region, which follows the selection, is inverted
C32_Inverted ==
  /\ ev.op = "Drag"
  /\ mMouseEventState = mesDraggingPlayRegionStart
  /\ pre.pr.active
  /\ IsWithinMarker(mX, pre.pr.end)
  /\ playRegion.start = pre.pr.end
  /\ playRegion.start > playRegion.end

\* the start of an inactive region has been dragged onto its end
C32_Collapsed ==
  /\ ev.op = "Drag"
  /\ mMouseEventState = mesDraggingPlayRegionStart
  /\ ~pre.pr.active
  /\ mIsDragging
  /\ playRegion.start = playRegion.end
  /\ playRegion.end = pre.pr.end

\* the edge of a region that a dragging mode holds, and the opposite one
Grabbed(pr, mode) == IF mode = mesDraggingPlayRegionStart THEN pr.start ELSE pr.end

Opposite(pr, mode) == IF mode = mesDraggingPlayRegionStart THEN pr.end ELSE pr.start

DraggingModes == {mesDraggingPlayRegionStart, mesDraggingPlayRegionEnd}

\* The latch, step by step.  isDragging false stands for "the pointer has not
\* left the tolerance of the grabbed edge since the mouse-down":
\*   - the mouse-down on the grabbed edge leaves isDragging false and the
\*     edge where it was;
\*   - a move within the tolerance with isDragging false keeps both;
\*   - a move outside the tolerance, or any move with isDragging true, leaves
\*     isDragging true and the edge at the quick-play time of the pointer.
LatchRule(mode) ==
  /\ (ev'.op = "Click" /\ mMouseEventState' = mode
        /\ IsWithinMarker(mX', Grabbed(pre'.pr, mode)))
       => /\ ~mIsDragging'
          /\ Grabbed(playRegion', mode) = Grabbed(pre'.pr, mode)
  /\ (MoveIn(mode) /\ ~mIsDragging /\ IsWithinMarker(mX', Grabbed(pre.pr, mode)))
       => /\ ~mIsDragging'
          /\ Grabbed(playRegion', mode) = Grabbed(pre.pr, mode)
  /\ (MoveIn(mode) /\ (mIsDragging \/ ~IsWithinMarker(mX', Grabbed(pre.pr, mode))))
       => /\ mIsDragging'
          /\ Grabbed(playRegion', mode) = mQuickPlayPos'

\* C33: in DraggingStart (DraggingEnd), as long as the pointer has never left
\* the tolerance of the grabbed edge since the mouse-down of this gesture the
\* grabbed edge stays at its pre-gesture value and isDragging stays false;
\* once it has left, isDragging is true for the rest of the gesture and the
\* edge follows the pointer, also back within tolerance of the original edge.
C33_DragLatch ==
  [][ LatchRule(mesDraggingPlayRegionStart) /\ LatchRule(mesDraggingPlayRegionEnd) ]_vars

\* the step is outside the tolerance of the edge opposite to the grabbed one
\* and belongs to a gesture that found isDragging false
FreshAndClear(mode) ==
  /\ ~IsWithinMarker(mX', Opposite(pre'.pr, mode))
  /\ ev'.op = "Click" => ~mIsDragging

\* C33 for gestures that start with isDragging false, on the steps whose
\* pointer is not within tolerance of the opposite edge
C33_DragLatchFresh ==
  [][ /\ FreshAndClear(mesDraggingPlayRegionStart) => LatchRule(mesDraggingPlayRegionStart)
      /\ FreshAndClear(mesDraggingPlayRegionEnd) => LatchRule(mesDraggingPlayRegionEnd) ]_vars

\* a mouse-down on an edge, the pointer still on it, with isDragging true
C33_StaleLatch ==
  /\ ev.op = "Click"
  /\ mMouseEventState \in DraggingModes
  /\ IsWithinMarker(mX, Grabbed(pre.pr, mMouseEventState))
  /\ mIsDragging

\* the pointer left the tolerance and came back: the edge is not at its
\* pre-gesture value
C33_Latched ==
  /\ ev.op = "Drag"
  /\ mMouseEventState = mesDraggingPlayRegionStart
  /\ mIsDragging
  /\ nMoves = 2
  /\ IsWithinMarker(mX, pre.pr.start)
  /\ playRegion.start = mQuickPlayPos
  /\ playRegion.start # pre.pr.start

\* ======================================================================
\* IsWithinMarker as a function of the pointer pixel and the marker time.
\* ======================================================================
\* marker times: unset (-1), negative, the scroll positions, times in and
\* right of the view
MarkerTimes == {-5, -1, 0, 3, 6, 8, 20}

\* IsWithinMarker(x, t) is asked for
MarkerTest(x, t) ==
  /\ ev' = [ op |-> "Marker", x |-> x, t |-> t, within |-> IsWithinMarker(x, t) ]
  /\ Apply(St)
  /\ UNCHANGED << pre, nGestures, nMoves, nExternal >>

NextMarker == \E x \in AxisXs, t \in MarkerTimes : MarkerTest(x, t)

SpecMarker == InitAxis /\ [][NextMarker]_vars

\* C34: IsWithinMarker(x, t) is true exactly when t is defined (t >= 0) and
\* x is within the 4-pixel tolerance of Time2Pos(t), the same on the left and
\* on the right of the marker; it is false for every negative marker time.
C34_SymmetricWindow ==
  ev.op = "Marker" =>
    /\ ev.within <=> (ev.t >= 0 /\ Abs(ev.x - Time2Pos(ev.t)) <= SELECT_TOLERANCE_PIXEL)
    /\ ev.t < 0 => ~ev.within

\* C34 with the window of the code: 4 pixels to the left of the marker's
\* pixel, 3 to the right
C34_HalfOpenWindow ==
  ev.op = "Marker" =>
    /\ ev.within <=> (ev.t >= 0 /\ (ev.x - Time2Pos(ev.t)) \in
                        (0 - SELECT_TOLERANCE_PIXEL) .. (SELECT_TOLERANCE_PIXEL - 1))
    /\ ev.t < 0 => ~ev.within

\* the pointer 4 pixels right of the marker is outside, 4 pixels left inside
C34_RightEdge ==
  /\ ev.op = "Marker"
  /\ ev.t >= 0
  /\ ev.x = Time2Pos(ev.t) + SELECT_TOLERANCE_PIXEL
  /\ ~ev.within
  /\ IsWithinMarker(Time2Pos(ev.t) - SELECT_TOLERANCE_PIXEL, ev.t)

\* a negative marker time whose pixel is at the pointer
C34_NegativeMarker ==
  /\ ev.op = "Marker"
  /\ ev.t < 0
  /\ ev.x = Time2Pos(ev.t)
  /\ ~ev.within

\* ======================================================================
\* The shape flags of the ruler indicator, with and without a scrub mark.
\* ======================================================================
InitShape ==
  /\ tracks \in TrackSpans
  /\ zoom \in Zooms
  /\ hpos \in ScrollPositions
  /\ mLeftOffset = 1
  /\ usableWidth = Width
  /\ selectedRegion = [t0 |-> 2, t1 |-> 4]
  /\ playRegion = MkRegion(selectedRegion.t0, selectedRegion.t1, FALSE, Unset, Unset)
  /\ mOldPlayRegion = UnsetRegion
  /\ mOldSelection = [t0 |-> 0, t1 |-> 0]
  /\ mMouseEventState = mesNone
  /\ mIsDragging = FALSE
  /\ mLeftDownClick = -1
  /\ mLeftDownClickUnsnapped = -1
  /\ mQuickPlayPos = 0
  /\ mQuickPlayPosUnsnapped = 0
  /\ mIsSnapped = FALSE
  /\ mIsRecording = FALSE
  /\ mPlayRegionDragsSelection = FALSE
  /\ mClicked = "None"
  /\ mX = 0
  /\ audioActive = FALSE
  /\ hasMark \in BOOLEAN
  /\ scrubTarget = FALSE
  /\ OverlaysFresh
  /\ PanelFresh(PanelWidth)
  /\ requests = << >>
  /\ ev = [ op |-> "Init", lastCell |-> "None", target |-> FALSE ]
  /\ pre = [pr |-> playRegion, sel |-> selectedRegion, x |-> 0]
  /\ nGestures = 0
  /\ nMoves = 0
  /\ nExternal = 0

\* ScrubbingRulerOverlay::DoGetRectangle, remembering the cell of the
\* pointer and whether the ruler had a drag target
RulerQuery(lastCell, scrubMode, target, seeks) ==
  /\ rulerOverlay' = RulerOverlay_Update(rulerOverlay, lastCell, scrubMode,
                                         target, seeks)
  /\ ev' = [ op |-> "RulerQuery", lastCell |-> lastCell, target |-> target ]
  /\ UNCHANGED << Frame, guideline >>

ShapeDraw ==
  /\ rulerOverlay' = RulerOverlay_Draw(rulerOverlay)
  /\ ev' = [ op |-> "RulerDraw", lastCell |-> "None", target |-> FALSE ]
  /\ UNCHANGED << Frame, guideline >>

ShapePointer(cell, x) ==
  /\ Apply(IF cell = "QP" THEN QPCell_HitTest(St, x, FALSE)
                          ELSE ScrubbingCell_HitTest(St, x, FALSE))
  /\ ev' = [ op |-> "Pointer", lastCell |-> cell, target |-> FALSE ]
  /\ UNCHANGED << pre, nGestures, nMoves, nExternal >>

\* the scrubber gets or loses its mark (a scrub starts or ends elsewhere)
MarkChanges ==
  /\ Apply([St EXCEPT !.hasMark = ~hasMark])
  /\ ev' = [ op |-> "Mark", lastCell |-> "None", target |-> FALSE ]
  /\ UNCHANGED << pre, nGestures, nMoves, nExternal >>

ShapeTransport ==
  /\ Apply([St EXCEPT !.audioActive = ~audioActive])
  /\ ev' = [ op |-> "Transport", lastCell |-> "None", target |-> FALSE ]
  /\ UNCHANGED << pre, nGestures, nMoves, nExternal >>

NextShape ==
  \/ \E c \in Cells, m \in ScrubModes, tg \in BOOLEAN, sk \in BOOLEAN :
        RulerQuery(c, m, tg, sk)
  \/ ShapeDraw
  \/ \E c \in {"QP", "Scrub"}, x \in OverlayXs : ShapePointer(c, x)
  \/ MarkChanges
  \/ ShapeTransport

SpecShape == InitShape /\ [][NextShape]_vars

\* C35: at every overlay update that leaves the indicator visible the scrub
\* flag is true exactly when no other ruler drag target is active and the
\* pointer is in the scrub cell or the scrubber has a mark, and the seek flag
\* is true only if the scrub flag is; seek => scrub holds in every reachable
\* state for the new and for the last drawn flags.
C35_ShapeFlags ==
  /\ (ev.op = "RulerQuery" /\ rulerOverlay.mNewQPIndicatorPos >= 0) =>
       (rulerOverlay.mNewScrub <=>
          (~ev.target /\ (ev.lastCell = "Scrub" \/ hasMark)))
  /\ rulerOverlay.mNewSeek => rulerOverlay.mNewScrub
  /\ rulerOverlay.mOldSeek => rulerOverlay.mOldScrub

\* the seek shape, drawn for a pointer in the quick-play cell while the
\* scrubber has a mark
C35_Witness ==
  /\ ev.op = "RulerDraw"
  /\ hasMark
  /\ rulerOverlay.mOldQPIndicatorPos >= 0
  /\ rulerOverlay.mOldSeek /\ rulerOverlay.mOldScrub

\* a visible indicator without the scrub shape although the scrubber has a
\* mark: another drag target is active
C35_WitnessTarget ==
  /\ ev.op = "RulerQuery" /\ ev.target /\ ev.lastCell = "Scrub"
  /\ hasMark
  /\ rulerOverlay.mNewQPIndicatorPos >= 0
  /\ ~rulerOverlay.mNewScrub /\ ~rulerOverlay.mNewSeek

\* ----------------------------------------------------------------------
\* C36: StartQPPlay computes the span from the region it finds, before it
\* stops the transport; also when the stop delivers an audio-stop event that
\* resets the inactive region to the selection, the play request is issued
\* for that span, and when StartQPPlay returns the play region equals the
\* span passed to the play request.
C36_SpanSurvivesStop ==
  ValidCall =>
    /\ PlayReq.req = "play"
    /\ [start |-> PlayReq.start, end |-> PlayReq.end] = ExpectedSpan
    /\ SpanOf(playRegion) = [start |-> PlayReq.start, end |-> PlayReq.end]

\* the stop delivered the event during the call, the region was inactive and
\* differed from the selection, which the event put in its place
C36_Witness ==
  /\ ValidCall
  /\ ev.cb
  /\ ~pre.pr.active
  /\ ExpectedSpan # [start |-> pre.sel.t0, end |-> pre.sel.t1]
  /\ SpanOf(playRegion) = ExpectedSpan
  /\ PlayReq.req = "play" /\ PlayReq.start = ExpectedSpan.start

\* ----------------------------------------------------------------------
\* a left-button gesture of the quick-play handle is going on, started on a
\* region that was active (locked)
LockedGesture == mClicked = "Left" /\ ~scrubTarget /\ pre.pr.active

\* C37: a play region that was active at mouse-down is inactive for the
\* duration of the gesture, and after the mouse-up has been processed
\* (validity policy, playback request, cleanup) its start and end are the
\* pre-gesture values and it is active again, whatever was dragged and
\* whether or not the dragged region was cleared.
C37_LockedRestored ==
  /\ [](LockedGesture => ~playRegion.active)
  /\ [][ (LockedGesture /\ ev'.op = "Release")
           => /\ playRegion'.active
              /\ SpanOf(playRegion') = SpanOf(pre.pr) ]_vars

\* the release of a drag on a locked region whose dragged region was cleared
\* by the validity policy
C37_Witness ==
  /\ ev.op = "Release" /\ LeftGestureWas
  /\ pre.pr.active
  /\ ev.cleared
  /\ playRegion.active
  /\ SpanOf(playRegion) = SpanOf(pre.pr)

\* the release of a drag on a locked region that is being played
C37_WitnessPlayed ==
  /\ ev.op = "Release" /\ LeftGestureWas
  /\ pre.pr.active
  /\ PlayRequested
  /\ requests[Len(requests)].start # pre.pr.start
  /\ playRegion.active
  /\ SpanOf(playRegion) = SpanOf(pre.pr)

\* ----------------------------------------------------------------------
\* what the claim asks of the region after a move handled in SelectingRange
RangeRule ==
  /\ playRegion'.start <= playRegion'.end
  /\ \/ (playRegion'.start = mLeftDownClick /\ playRegion'.end = mQuickPlayPos')
     \/ (playRegion'.end = mLeftDownClick /\ playRegion'.start = mQuickPlayPos')
  /\ InWindow(mX', mLeftDownClickUnsnapped)
       => SpanOf(playRegion') = [start |-> mLeftDownClick, end |-> mLeftDownClick]

\* C38: after every mouse-move processed in SelectingRange the region has
\* start <= end, one bound is the anchor and the other the current
\* quick-play time, and the region is collapsed to [anchor, anchor] whenever
\* the pointer is within tolerance of the unsnapped anchor.
C38_RangeAnchored ==
  [][ MoveIn(mesSelectingPlayRegionRange) => RangeRule ]_vars

\* C38 for anchors whose unsnapped time is not negative
C38_RangeAnchoredOnAxis ==
  [][ (MoveIn(mesSelectingPlayRegionRange) /\ mLeftDownClickUnsnapped >= 0)
        => RangeRule ]_vars

\* a move in SelectingRange within the tolerance of a negative anchor, and
\* the region is not collapsed
C38_NegativeAnchor ==
  /\ ev.op = "Drag"
  /\ mMouseEventState = mesSelectingPlayRegionRange
  /\ nMoves = 2
  /\ mLeftDownClickUnsnapped < 0
  /\ InWindow(mX, mLeftDownClickUnsnapped)
  /\ playRegion.start < playRegion.end

\* a move in SelectingRange back to the anchor collapses the region
C38_BackAtAnchor ==
  /\ ev.op = "Drag"
  /\ mMouseEventState = mesSelectingPlayRegionRange
  /\ nMoves = 2
  /\ mLeftDownClickUnsnapped >= 0
  /\ InWindow(mX, mLeftDownClickUnsnapped)
  /\ SpanOf(playRegion) = [start |-> mLeftDownClick, end |-> mLeftDownClick]

\* ----------------------------------------------------------------------
\* the quick-play time is one of the two selection boundaries
AtSelectionBoundary ==
  mQuickPlayPos \in {selectedRegion.t0, selectedRegion.t1}

\* C39: in every reachable state in which the snapped flag is true the
\* quick-play time equals one of the two selection boundaries, also after
\* the clamp to the track end and after a drag move replaced the time.
C39_SnappedFlag ==
  mIsSnapped => AtSelectionBoundary

\* ======================================================= the idle refresh
\* number of changes of the view, the region and the geometry in a behaviour
MaxChanges == 2
\* zooms and widths of the client rectangle that a change may set
IdleZooms == {1, 2}
ClientWidths == {0, PanelWidth}

\* AdornedRulerPanel::ShowingScrubRuler
ShowingScrubRuler == showsBar

\* AdornedRulerPanel::UpdateRects (SCRUB_ABOVE is not defined): the inner
\* rectangle and the scrub zone computed from mOuter, and whether they differ
\* from the stored ones
UpdateRects(outer, showing, inner0, scrubZone0) ==
  LET inner1 == [outer EXCEPT !.x = @ + LeftMargin,
                              !.width = @ - (LeftMargin + RightMargin)]
      scrubHeight == Min(inner1.height, ScrubHeight)
      qpHeight == inner1.height - scrubHeight
      inner == IF showing
                 THEN [inner1 EXCEPT !.y = @ + TopMargin,
                                     !.height = qpHeight - TopMargin]
                 ELSE [inner1 EXCEPT !.y = @ + TopMargin,
                                     !.height = @ - TopMargin - BottomMargin]
      scrubZone == IF showing
                     THEN [inner1 EXCEPT
                             !.y = @ + qpHeight,
                             !.height = (@ + BottomMargin) - qpHeight
                                          - BottomMargin]
                     ELSE inner
  IN IF inner = inner0 /\ scrubZone = scrubZone0
       THEN [changed |-> FALSE, mInner |-> inner0, mScrubZone |-> scrubZone0]
       ELSE [changed |-> TRUE, mInner |-> inner, mScrubZone |-> scrubZone]

\* AdornedRulerPanel::SetPanelSize: the size the panel gets, and whether it
\* differs from the old one
SetPanelSize(oldSize, showing) ==
  LET size == [oldSize EXCEPT !.height = GetRulerHeight(showing)]
  IN [changed |-> size # oldSize, size |-> size]

\* the last-active bounds of the play region as OnPaint and DoIdle read them
PlayRegionBounds == << playRegion.lastStart, playRegion.lastEnd >>

\* AdornedRulerPanel::DoIdle
\* DoIdle that does not compare the zoom
DoIdle_IgnoresZoom(rects, size) ==
  LET dirtyPlayRegion == mDirtyPlayRegion
                           \/ mLastDrawnPlayRegion # PlayRegionBounds
  IN \/ rects.changed
     \/ size.changed
     \/ dirtyPlayRegion
     \/ mLastDrawnH # hpos
     \/ mLastPlayRegionActive # playRegion.active

\* whether DoIdle calls Refresh(), given the results of UpdateRects and
\* SetPanelSize
DoIdle(rects, size) ==
  LET dirtyPlayRegion == mDirtyPlayRegion
                           \/ mLastDrawnPlayRegion # PlayRegionBounds
  IN \/ rects.changed
     \/ size.changed
     \/ dirtyPlayRegion
     \/ mLastDrawnH # hpos
     \/ mLastDrawnZoom # zoom
     \/ mLastPlayRegionActive # playRegion.active

\* history: what the idle tick saw of the view, the region and the geometry
IdleInputs ==
  [ h |-> hpos, zoom |-> zoom, bounds |-> PlayRegionBounds,
    active |-> playRegion.active, clientRect |-> clientRect,
    showsBar |-> showsBar ]

IdleEvent(op, refresh) == [op |-> op, refresh |-> refresh]

\* the variables of the gesture handlers and of the overlays
GestureVars == << selectedRegion, mOldPlayRegion, mOldSelection,
                  mMouseEventState, mIsDragging, mLeftDownClick,
                  mLeftDownClickUnsnapped, mQuickPlayPos,
                  mQuickPlayPosUnsnapped, mIsSnapped, mIsRecording,
                  mPlayRegionDragsSelection, mClicked, mX, tracks,
                  mLeftOffset, usableWidth, audioActive, hasMark, scrubTarget,
                  requests, nGestures, nMoves >>

\* what the last paint has stored
DrawnVars == << mLastDrawnH, mLastDrawnZoom, mLastDrawnPlayRegion,
                mDirtyPlayRegion, mLastPlayRegionActive >>

InitIdle ==
  /\ tracks \in TrackSpans
  /\ zoom = 1
  /\ hpos = 0
  /\ mLeftOffset = 1
  /\ usableWidth = Width
  /\ selectedRegion = [t0 |-> 2, t1 |-> 4]
  /\ playRegion \in InitRegions(selectedRegion)
  /\ mOldPlayRegion = UnsetRegion
  /\ mOldSelection = [t0 |-> 0, t1 |-> 0]
  /\ mMouseEventState = mesNone
  /\ mIsDragging = FALSE
  /\ mLeftDownClick = Unset
  /\ mLeftDownClickUnsnapped = Unset
  /\ mQuickPlayPos = 0
  /\ mQuickPlayPosUnsnapped = 0
  /\ mIsSnapped = FALSE
  /\ mIsRecording = FALSE
  /\ mPlayRegionDragsSelection = FALSE
  /\ mClicked = "None"
  /\ mX = 0
  /\ audioActive = FALSE
  /\ hasMark = FALSE
  /\ scrubTarget = FALSE
  /\ OverlaysFresh
  /\ PanelFresh(PanelWidth)
  /\ requests = << >>
  /\ ev = IdleEvent("Init", FALSE)
  /\ pre = IdleInputs
  /\ nGestures = 0 /\ nMoves = 0 /\ nExternal = 0

\* OnIdle: DoIdle.  SetPanelSize gives the panel its new size; the size
\* event that follows is handled by OnSize.
OnIdle ==
  LET rects == UpdateRects(mOuter, ShowingScrubRuler, mInner, mScrubZone)
      size == SetPanelSize(clientRect, ShowingScrubRuler)
      changed == DoIdle(rects, size)
  IN /\ mInner' = rects.mInner
     /\ mScrubZone' = rects.mScrubZone
     /\ clientRect' = size.size
     /\ needsPaint' = (needsPaint \/ changed)
     /\ mDirtyPlayRegion' = FALSE
     /\ ev' = IdleEvent("Idle", changed)
     /\ pre' = [IdleInputs EXCEPT !.clientRect = size.size]
     /\ UNCHANGED << GestureVars, playRegion, zoom, hpos, rulerOverlay,
                     guideline, showsBar, mOuter, mLastDrawnH, mLastDrawnZoom,
                     mLastDrawnPlayRegion, mLastPlayRegionActive, nExternal >>

\* OnPaint, with DoDrawPlayRegion noting the active flag and DrawOverlays
\* repainting both overlays; the pointer is outside the ruler
OnPaint ==
  /\ needsPaint
  /\ mLastDrawnH' = hpos
  /\ mLastDrawnZoom' = zoom
  /\ mDirtyPlayRegion' = (mLastDrawnPlayRegion # PlayRegionBounds)
  /\ mLastDrawnPlayRegion' = PlayRegionBounds
  /\ mLastPlayRegionActive' = playRegion.active
  /\ rulerOverlay' = RulerOverlay_Draw(
                       RulerOverlay_Update(rulerOverlay, "None", "off",
                                           FALSE, FALSE))
  /\ guideline' = Guideline_Draw(Guideline_Update(guideline, "None", "off"),
                                 rulerOverlay')
  /\ needsPaint' = FALSE
  /\ ev' = IdleEvent("Paint", FALSE)
  /\ UNCHANGED << GestureVars, playRegion, zoom, hpos, clientRect, showsBar,
                  mOuter, mInner, mScrubZone, pre, nExternal >>

\* OnSize: the size event after the client rectangle has changed
OnSize ==
  /\ mOuter # clientRect
  /\ mOuter' = clientRect
  /\ LET rects == IF clientRect.width = 0 \/ clientRect.height = 0
                    THEN [changed |-> FALSE, mInner |-> mInner,
                          mScrubZone |-> mScrubZone]
                    ELSE UpdateRects(clientRect, ShowingScrubRuler, mInner,
                                     mScrubZone)
     IN /\ mInner' = rects.mInner
        /\ mScrubZone' = rects.mScrubZone
  /\ ev' = IdleEvent("Size", FALSE)
  /\ UNCHANGED << GestureVars, playRegion, zoom, hpos, rulerOverlay,
                  guideline, clientRect, showsBar, DrawnVars, needsPaint,
                  pre, nExternal >>

\* DrawSelection: Refresh()
DrawSelection ==
  /\ needsPaint' = TRUE
  /\ ev' = IdleEvent("DrawSelection", FALSE)
  /\ UNCHANGED << GestureVars, playRegion, zoom, hpos, rulerOverlay,
                  guideline, clientRect, showsBar, mOuter, mInner, mScrubZone,
                  DrawnVars, pre, nExternal >>

\* a change of the view outside the panel
ViewChanges(z, h) ==
  /\ nExternal < MaxChanges
  /\ << z, h >> # << zoom, hpos >>
  /\ zoom' = z
  /\ hpos' = h
  /\ ev' = IdleEvent("View", FALSE)
  /\ nExternal' = nExternal + 1
  /\ UNCHANGED << GestureVars, playRegion, rulerOverlay, guideline,
                  PaintVars, pre >>

\* a handler of the panel or a caller outside it changes the play region;
\* SetPlayRegion and ClearPlayRegion end with Refresh()
RegionChanges(op, r) ==
  /\ nExternal < MaxChanges
  /\ ApplyState(CASE op = "SetPlayRegion" -> SetPlayRegion(St, r.t0, r.t1)
                  [] op = "ClearPlayRegion" -> ClearPlayRegion(St, FALSE)
                  [] op = "Activate" -> ActivatePlayRegion(St)
                  [] op = "Inactivate" -> InactivatePlayRegion(St))
  /\ needsPaint' = \/ needsPaint
                   \/ op = "SetPlayRegion" /\ mMouseEventState = mesNone
                   \/ op = "ClearPlayRegion"
  /\ ev' = IdleEvent(op, FALSE)
  /\ nExternal' = nExternal + 1
  /\ UNCHANGED << zoom, hpos, clientRect, showsBar, mOuter, mInner,
                  mScrubZone, DrawnVars, pre, nGestures, nMoves >>

\* the window is resized, or the scrub bar is shown or hidden
GeometryChanges(w, bar) ==
  /\ nExternal < MaxChanges
  /\ << w, bar >> # << clientRect.width, showsBar >>
  /\ clientRect' = [clientRect EXCEPT !.width = w]
  /\ showsBar' = bar
  /\ ev' = IdleEvent("Geometry", FALSE)
  /\ nExternal' = nExternal + 1
  /\ UNCHANGED << GestureVars, playRegion, zoom, hpos, rulerOverlay,
                  guideline, mOuter, mInner, mScrubZone, DrawnVars,
                  needsPaint, pre >>

NextIdle ==
  \/ OnIdle
  \/ OnPaint
  \/ OnSize
  \/ DrawSelection
  \/ \E z \in IdleZooms, h \in ScrollPositions : ViewChanges(z, h)
  \/ \E op \in {"SetPlayRegion", "ClearPlayRegion", "Activate", "Inactivate"},
        r \in ExternalRegions : RegionChanges(op, r)
  \/ \E w \in ClientWidths, bar \in BOOLEAN : GeometryChanges(w, bar)

SpecIdle == InitIdle /\ [][NextIdle]_vars

\* Idle events keep arriving while the application is idle, and the window
\* system delivers the paint and size events it owes.
SpecIdleFair ==
  /\ SpecIdle
  /\ WF_vars(OnIdle)
  /\ WF_vars(OnPaint)
  /\ WF_vars(OnSize)

\* a value of the view or of the region differs from what the last paint drew
StaleView ==
  \/ mLastDrawnH # hpos
  \/ mLastDrawnZoom # zoom
  \/ mLastDrawnPlayRegion # PlayRegionBounds
  \/ mLastPlayRegionActive # playRegion.active

\* C40: once the last-active bounds, the active flag, the zoom, the scroll
\* position and the geometry stay as they are and refreshes are painted, the
\* idle tick eventually requests no further refresh; and an idle tick that
\* finds one of the view's or region's values different from what the last
\* paint drew, or bounds that the last paint found changed, requests a
\* refresh.
C40_IdleQuiesces ==
  /\ <>[](ev.op = "Idle" => ~ev.refresh)
  /\ [][ (ev'.op = "Idle" /\ (StaleView \/ mDirtyPlayRegion))
          => ev'.refresh ]_vars

\* C40 as stated: every change since the previous idle tick is followed by a
\* refresh request at the next idle tick
C40_EveryChangeRefreshed ==
  [][ (ev'.op = "Idle" /\ IdleInputs # pre) => ev'.refresh ]_vars

\* the same for the zoom and the scroll position alone
C40_ViewChangeRefreshed ==
  [][ (ev'.op = "Idle" /\ << hpos, zoom >> # << pre.h, pre.zoom >>)
        => ev'.refresh ]_vars

\* the values have changed, a paint has drawn them, and the idle tick is quiet
C40_Witness ==
  /\ ev.op = "Idle" /\ ~ev.refresh
  /\ nExternal = MaxChanges
  /\ ~StaleView /\ ~needsPaint
  /\ mOuter = clientRect

\* the idle tick has found a stale value and requested the refresh
C40_WitnessRefresh ==
  /\ ev.op = "Idle" /\ ev.refresh
  /\ mLastDrawnZoom \in IdleZooms \ {zoom}
  /\ needsPaint

====
